---- MODULE Spec2Model ----
(***************************************************************************)
(* A model of fastmcp-ts: the @tool decorator (explicit options merged     *)
(* with documentation parsed from the source file), the process-wide       *)
(* registries, FastMCP.register and the CallTool / ListTools handlers.     *)
(*                                                                         *)
(* JavaScript strings are sequences of one-character strings, so that the  *)
(* regular expressions and the string methods of the source are computed   *)
(* character by character.  The value undefined is the constant undefined. *)
(***************************************************************************)
EXTENDS Integers, Sequences, FiniteSets, TLC

\* ------------------------------------------------------------------------
\* Strings
\* ------------------------------------------------------------------------

\* JavaScript's undefined where a string is expected (no string equals it:
\* strings hold single characters)
undefined == <<"undefined">>

\* JavaScript's undefined where an object (a schema, a parameter table) is expected
undefinedObj == [kind |-> "undefined"]

\* \s : the white space characters that occur inside a line
WhiteSpace == {" ", "\t"}

UpperLetters == <<"A","B","C","D","E","F","G","H","I","J","K","L","M",
                  "N","O","P","Q","R","S","T","U","V","W","X","Y","Z">>

LowerLetters == <<"a","b","c","d","e","f","g","h","i","j","k","l","m",
                  "n","o","p","q","r","s","t","u","v","w","x","y","z">>

Digits == {"0","1","2","3","4","5","6","7","8","9"}

\* \w : [A-Za-z0-9_]
WordChars == {UpperLetters[i] : i \in 1..26} \cup {LowerLetters[i] : i \in 1..26}
             \cup Digits \cup {"_"}

\* the lower-case form of one character (the /i flag of a regular expression)
LowerChar(c) ==
  IF \E i \in 1..26 : UpperLetters[i] = c
  THEN LowerLetters[CHOOSE i \in 1..26 : UpperLetters[i] = c]
  ELSE c

ToLower(s) == [i \in 1..Len(s) |-> LowerChar(s[i])]

SetMin(S) == CHOOSE x \in S : \A y \in S : x <= y

SetMax(S) == CHOOSE x \in S : \A y \in S : y <= x

\* pat occurs in s starting at position i (1-based)
MatchAt(s, pat, i) ==
  /\ i >= 1
  /\ i + Len(pat) - 1 <= Len(s)
  /\ \A k \in 1..Len(pat) : s[i + k - 1] = pat[k]

\* String.prototype.indexOf, 1-based; 0 when pat does not occur (JS: -1)
indexOf(s, pat) ==
  LET hits == {i \in 1..(Len(s) + 1) : MatchAt(s, pat, i)}
  IN  IF hits = {} THEN 0 ELSE SetMin(hits)

includes(s, pat) == indexOf(s, pat) # 0

startsWith(s, pat) == MatchAt(s, pat, 1)

endsWith(s, pat) == Len(pat) <= Len(s) /\ MatchAt(s, pat, Len(s) - Len(pat) + 1)

\* s.slice(i) for a 1-based first position i
SliceFrom(s, i) == SubSeq(s, i, Len(s))

\* the number of leading white space characters of s
LeadingWs(s) ==
  LET stops == {i \in 1..Len(s) : s[i] \notin WhiteSpace}
  IN  IF stops = {} THEN Len(s) ELSE SetMin(stops) - 1

\* the number of trailing white space characters of s
TrailingWs(s) ==
  LET stops == {i \in 1..Len(s) : s[i] \notin WhiteSpace}
  IN  IF stops = {} THEN Len(s) ELSE Len(s) - SetMax(stops)

\* String.prototype.trim
trim(s) ==
  IF LeadingWs(s) = Len(s) THEN <<>>
  ELSE SubSeq(s, LeadingWs(s) + 1, Len(s) - TrailingWs(s))

\* the length of the longest run of characters of set cs that starts s
LeadingRun(s, cs) ==
  LET stops == {i \in 1..Len(s) : s[i] \notin cs}
  IN  IF stops = {} THEN Len(s) ELSE SetMin(stops) - 1

\* Array.prototype.join
RECURSIVE join(_, _)
join(parts, sep) ==
  IF Len(parts) = 0 THEN <<>>
  ELSE IF Len(parts) = 1 THEN parts[1]
  ELSE parts[1] \o sep \o join(Tail(parts), sep)

\* text.split(/\r?\n/)
RECURSIVE splitLines(_)
splitLines(text) ==
  LET nl == indexOf(text, <<"\n">>)
  IN  IF nl = 0 THEN <<text>>
      ELSE LET head == SubSeq(text, 1, nl - 1)
               line == IF Len(head) > 0 /\ head[Len(head)] = "\r"
                       THEN SubSeq(head, 1, Len(head) - 1) ELSE head
           IN  <<line>> \o splitLines(SliceFrom(text, nl + 1))

\* ------------------------------------------------------------------------
\* doc-utils.ts
\* ------------------------------------------------------------------------

\* line.replace(/^\s*\*\s?/, '')
stripLeadingStar(line) ==
  LET n == LeadingWs(line)
  IN  IF n < Len(line) /\ line[n + 1] = "*"
      THEN IF n + 1 < Len(line) /\ line[n + 2] \in WhiteSpace
           THEN SliceFrom(line, n + 3)
           ELSE SliceFrom(line, n + 2)
      ELSE line

\* /^@param\s+/.test(line)
paramTagTest(line) ==
  /\ startsWith(line, <<"@","p","a","r","a","m">>)
  /\ Len(line) >= 7
  /\ line[7] \in WhiteSpace

\* line.match(/^@param\s+(\w+)\s+(.*)$/): the groups <<m[1], m[2]>>, or <<>> for null
paramTagMatch(line) ==
  IF ~paramTagTest(line) THEN <<>>
  ELSE LET afterTag == SliceFrom(line, 7)
           afterWs1 == SliceFrom(afterTag, LeadingWs(afterTag) + 1)
           nameLen  == LeadingRun(afterWs1, WordChars)
           afterName == SliceFrom(afterWs1, nameLen + 1)
           ws2      == LeadingWs(afterName)
       IN  IF nameLen >= 1 /\ ws2 >= 1
           THEN <<SubSeq(afterWs1, 1, nameLen), SliceFrom(afterName, ws2 + 1)>>
           ELSE <<>>

\* the length of the @return / @returns tag that starts line and ends at a word
\* boundary (/^@returns?\b/), or 0
returnsTagLen(line) ==
  LET tag == <<"@","r","e","t","u","r","n">>
      boundaryAfter(k) == k = Len(line) \/ line[k + 1] \notin WordChars
  IN  IF ~startsWith(line, tag) THEN 0
      ELSE IF Len(line) >= 8 /\ line[8] = "s" /\ boundaryAfter(8) THEN 8
      ELSE IF boundaryAfter(7) THEN 7
      ELSE 0

\* line.match(/^@returns?\s+(.*)$/): <<m[1]>>, or <<>> for null
returnsTagMatch(line) ==
  LET tag == <<"@","r","e","t","u","r","n">>
      k == IF Len(line) >= 8 /\ line[8] = "s" /\ Len(line) >= 9 /\ line[9] \in WhiteSpace
           THEN 8 ELSE 7
  IN  IF startsWith(line, tag) /\ Len(line) > k /\ line[k + 1] \in WhiteSpace
      THEN LET rest == SliceFrom(line, k + 1)
           IN  <<SliceFrom(rest, LeadingWs(rest) + 1)>>
      ELSE <<>>

\* params[name] = desc on a JavaScript object that keeps insertion order
setParam(params, name, desc) ==
  IF \E i \in 1..Len(params) : params[i].name = name
  THEN [i \in 1..Len(params) |->
          IF params[i].name = name THEN [name |-> name, desc |-> desc] ELSE params[i]]
  ELSE Append(params, [name |-> name, desc |-> desc])

\* s.replace(/\s+\/$/, '')
stripTrailingSlash(s) ==
  IF Len(s) >= 2 /\ s[Len(s)] = "/" /\ s[Len(s) - 1] \in WhiteSpace
  THEN LET body == SubSeq(s, 1, Len(s) - 1)
       IN  SubSeq(body, 1, Len(body) - TrailingWs(body))
  ELSE s

\* one iteration of the loop of parseRawDocComment over the line raw0
parseLine(st, raw0) ==
  LET \* the tag or prose of the cleaned line
      content(s, line) ==
        IF line = <<>> THEN s
        ELSE IF paramTagTest(line)
        THEN LET add(pm) == IF pm # <<>> /\ pm[1] # <<>>
                            THEN [s EXCEPT !.params = setParam(@, pm[1], trim(pm[2]))]
                            ELSE s
             IN  add(paramTagMatch(line))
        ELSE IF returnsTagLen(line) # 0
        THEN LET set(rm) == IF rm # <<>> THEN [s EXCEPT !.returns = trim(rm[1])] ELSE s
             IN  set(returnsTagMatch(line))
        ELSE IF ~startsWith(line, <<"@">>)
        THEN [s EXCEPT !.descriptionLines = Append(@, line)]
        ELSE s
      \* the text before the closing marker, which ends the loop
      upTo(line1, endIdx) ==
        content([st EXCEPT !.started = TRUE, !.done = (endIdx # 0)],
                trim(stripLeadingStar(IF endIdx # 0 THEN SubSeq(line1, 1, endIdx - 1)
                                      ELSE line1)))
      body(line1) == upTo(line1, indexOf(line1, <<"*","/">>))
      \* lines before the opening marker are skipped
      from(idx) ==
        IF ~st.started /\ idx = 0 THEN st
        ELSE body(IF ~st.started THEN SliceFrom(raw0, idx + 3) ELSE raw0)
  IN  IF st.done THEN st ELSE from(indexOf(raw0, <<"/","*","*">>))

RECURSIVE parseLines(_, _)
parseLines(st, lines) ==
  IF Len(lines) = 0 THEN st ELSE parseLines(parseLine(st, Head(lines)), Tail(lines))

\* a parse that reports a block without prose by an empty description
parseRawDocComment_emptyDescription(raw) ==
  LET result(st) ==
        [description |-> trim(stripTrailingSlash(join(st.descriptionLines, <<" ">>))),
         params |-> IF Len(st.params) > 0
                    THEN [kind |-> "object", entries |-> st.params]
                    ELSE undefinedObj,
         returns |-> st.returns]
  IN  result(parseLines([started |-> FALSE, done |-> FALSE, params |-> <<>>,
                         descriptionLines |-> <<>>, returns |-> undefined],
                        splitLines(raw)))

\* parseRawDocComment(raw): ParsedDoc
parseRawDocComment(raw) ==
  LET orUndefined(text) == IF text = <<>> THEN undefined ELSE text
      result(st) ==
        [description |->
           orUndefined(trim(stripTrailingSlash(join(st.descriptionLines, <<" ">>)))),
         params |-> IF Len(st.params) > 0
                    THEN [kind |-> "object", entries |-> st.params]
                    ELSE undefinedObj,
         returns |-> st.returns]
  IN  result(parseLines([started |-> FALSE, done |-> FALSE, params |-> <<>>,
                         descriptionLines |-> <<>>, returns |-> undefined],
                        splitLines(raw)))

\* an upward scan that passes over code lines too and so takes the nearest block
\* above, whatever lies between it and the decorator
extractDocCommentAbove_passesCode(lines, decoratorLine) ==
  LET block(i, opens) ==
        IF opens = {} THEN undefined
        ELSE join(SubSeq(lines, SetMax(opens), i), <<"\n">>)
      nearest(ends) ==
        IF ends = {} THEN undefined
        ELSE block(SetMax(ends),
                   {s \in 1..SetMax(ends) : includes(lines[s], <<"/","*","*">>)})
      first == decoratorLine - 1
  IN  IF first > Len(lines) THEN undefined
      ELSE nearest({i \in 1..first : endsWith(trim(lines[i]), <<"*","/">>)})

\* an upward scan that passes over blank lines only
extractDocCommentAbove_blankOnly(lines, decoratorLine) ==
  LET block(i, opens) ==
        IF opens = {} THEN undefined
        ELSE join(SubSeq(lines, SetMax(opens), i), <<"\n">>)
      at(i) ==
        IF endsWith(trim(lines[i]), <<"*","/">>)
        THEN block(i, {s \in 1..i : includes(lines[s], <<"/","*","*">>)})
        ELSE undefined
      nearest(stops) == IF stops = {} THEN undefined ELSE at(SetMax(stops))
      first == decoratorLine - 1
  IN  IF first > Len(lines) THEN undefined
      ELSE nearest({i \in 1..first : trim(lines[i]) # <<>>})

\* extractDocCommentAbove(lines, decoratorLine); decoratorLine counts lines from 1
extractDocCommentAbove(lines, decoratorLine) ==
  LET \* the lines the outer loop passes over without returning or breaking
      passes(trimmed) ==
        /\ ~endsWith(trimmed, <<"*","/">>)
        /\ \/ trimmed = <<>>
           \/ startsWith(trimmed, <<"/","/">>)
           \/ startsWith(trimmed, <<"*">>)
           \/ startsWith(trimmed, <<"/","*">>)
      \* the inner loop: up from the closing marker to the nearest opening one
      block(i, opens) ==
        IF opens = {} THEN undefined
        ELSE join(SubSeq(lines, SetMax(opens), i), <<"\n">>)
      at(i) ==
        IF endsWith(trim(lines[i]), <<"*","/">>)
        THEN block(i, {s \in 1..i : includes(lines[s], <<"/","*","*">>)})
        ELSE undefined
      nearest(stops) == IF stops = {} THEN undefined ELSE at(SetMax(stops))
      first == decoratorLine - 1  \* JS index decoratorLine - 2, 1-based here
  IN  IF first > Len(lines) THEN undefined
      ELSE nearest({i \in 1..first : ~passes(trim(lines[i]))})

\* ------------------------------------------------------------------------
\* Locating the call site and the decorated method (index.ts)
\* ------------------------------------------------------------------------

\* path.sep of the platform modelled (POSIX)
PathSep == <<"/">>

\* path.normalize, for the paths of this model: runs of separators collapse
RECURSIVE pathNormalize(_)
pathNormalize(p) ==
  IF Len(p) < 2 THEN p
  ELSE IF p[1] = "/" /\ p[2] = "/" THEN pathNormalize(Tail(p))
  ELSE <<p[1]>> \o pathNormalize(Tail(p))

\* normalizePath(p): a file:/// URL loses its scheme and the first "/" of its
\* path name (url.pathname.replace(/^\//, ''))
normalizePath(p) ==
  LET scheme == <<"f","i","l","e",":","/","/">>
  IN  IF startsWith(p, scheme \o <<"/">>)
      THEN pathNormalize(SliceFrom(p, Len(scheme) + 2))
      ELSE pathNormalize(p)

\* s.replace(/\.js$/, '.ts')
jsToTsExt(s) ==
  IF endsWith(s, <<".","j","s">>)
  THEN SubSeq(s, 1, Len(s) - 3) \o <<".","t","s">>
  ELSE s

\* s.replace(/(^|[\\/])dist([\\/])/, '$1src$2'): the first dist path segment
distToSrc(s) ==
  LET seg == <<"d","i","s","t","/">>
      hits == {i \in 1..Len(s) : MatchAt(s, seg, i) /\ (i = 1 \/ s[i - 1] = "/")}
  IN  IF hits = {} THEN s
      ELSE LET i == SetMin(hits)
           IN  SubSeq(s, 1, i - 1) \o <<"s","r","c","/">> \o SliceFrom(s, i + 5)

\* remapJsToTs(filePath); files is the set of the paths that exist on disk
remapJsToTs(filePath, files) ==
  LET pick(tsPath) == IF tsPath \in files THEN tsPath ELSE filePath
  IN  IF endsWith(filePath, <<".","j","s">>)
      THEN pick(jsToTsExt(distToSrc(filePath)))
      ELSE filePath

\* the test of getCallsiteFileFromStack on a normalized file name
isUserFrame(norm) ==
  /\ ~includes(norm, PathSep \o <<"n","o","d","e","_","m","o","d","u","l","e","s">> \o PathSep)
  /\ ~endsWith(norm, PathSep \o <<"s","r","c">> \o PathSep \o <<"i","n","d","e","x",".","t","s">>)
  /\ ~endsWith(norm, PathSep \o <<"d","i","s","t">> \o PathSep \o <<"i","n","d","e","x",".","j","s">>)

\* getCallsiteFileFromStack(): stack is the sequence of the frames' file names
\* (undefined for a frame without one), innermost first
getCallsiteFileFromStack(stack, files) ==
  LET first(ok) ==
        IF ok = {} THEN undefined
        ELSE remapJsToTs(normalizePath(stack[SetMin(ok)]), files)
  IN  first({i \in 1..Len(stack) :
               stack[i] # undefined /\ stack[i] # <<>> /\ isUserFrame(normalizePath(stack[i]))})

\* the entry of path p in a table of records with a path field, as a set
EntriesOf(table, p) == {e \in table : e.path = p}

\* fs.existsSync(p) on the disk, a set of [path, text] records
existsSync(disk, p) == EntriesOf(disk, p) # {}

\* getFileLines(filePath): the lines (ok) or undefined, the cache afterwards and
\* whether the disk was read; cache is the set of [path, lines] entries
getFileLines(filePath, disk, cache) ==
  LET loaded(key, lines) ==
        [ok |-> TRUE, lines |-> lines,
         cache |-> cache \cup {[path |-> key, lines |-> lines]}, read |-> TRUE]
      look(key) ==
        IF EntriesOf(cache, key) # {}
        THEN [ok |-> TRUE, lines |-> (CHOOSE e \in cache : e.path = key).lines,
              cache |-> cache, read |-> FALSE]
        ELSE IF existsSync(disk, key)
        THEN loaded(key, splitLines((CHOOSE e \in disk : e.path = key).text))
        ELSE [ok |-> FALSE, lines |-> <<>>, cache |-> cache, read |-> TRUE]
  IN  look(pathNormalize(filePath))

\* s starts with white space* "("
opensParen(s) == LeadingWs(s) < Len(s) /\ s[LeadingWs(s) + 1] = "("

\* \b between positions i - 1 and i of l
boundaryAt(l, i) ==
  LET isWord(k) == k >= 1 /\ k <= Len(l) /\ l[k] \in WordChars
  IN  isWord(i - 1) # isWord(i)

\* new RegExp(`(^|\\b)(async\\s+)?${name}\\s*\\(`).test(l)
methodReTest(name, l) ==
  LET async == <<"a","s","y","n","c">>
      nameAt(i) == MatchAt(l, name, i) /\ opensParen(SliceFrom(l, i + Len(name)))
      asyncBefore(i) ==
        \E j \in 1..(i - 6) :
          /\ MatchAt(l, async, j)
          /\ \A k \in (j + 5)..(i - 1) : l[k] \in WhiteSpace
          /\ (j = 1 \/ boundaryAt(l, j))
  IN  \E i \in 1..Len(l) :
        nameAt(i) /\ (i = 1 \/ boundaryAt(l, i) \/ asyncBefore(i))

\* /\@tool\s*\(/.test(l) || /\@tool\b(?!\s*\()/.test(l)
isToolDecoratorLine(l) ==
  LET tag == <<"@","t","o","o","l">>
      called(i) == opensParen(SliceFrom(l, i + 5))
      bare(i)   == (i + 5 > Len(l) \/ l[i + 5] \notin WordChars) /\ ~called(i)
  IN  \E i \in 1..Len(l) : MatchAt(l, tag, i) /\ (called(i) \/ bare(i))

\* s starts with \w+\s*\(
wordCall(s) ==
  LET n == LeadingRun(s, WordChars)
  IN  n >= 1 /\ opensParen(SliceFrom(s, n + 1))

\* s starts with (async\s+)?\w+\s*\(
asyncWordCall(s) ==
  \/ wordCall(s)
  \/ /\ startsWith(s, <<"a","s","y","n","c">>)
     /\ LeadingWs(SliceFrom(s, 6)) >= 1
     /\ wordCall(SliceFrom(s, 6 + LeadingWs(SliceFrom(s, 6))))

\* /^(\s*(public|private|protected)\s+)?(async\s+)?\w+\s*\(/.test(l)
isMethodDefLine(l) ==
  LET modifiers == {<<"p","u","b","l","i","c">>, <<"p","r","i","v","a","t","e">>,
                    <<"p","r","o","t","e","c","t","e","d">>}
      body == SliceFrom(l, LeadingWs(l) + 1)
  IN  \/ asyncWordCall(l)
      \/ \E m \in modifiers :
           /\ startsWith(body, m)
           /\ LeadingWs(SliceFrom(body, Len(m) + 1)) >= 1
           /\ asyncWordCall(SliceFrom(body, Len(m) + 1 + LeadingWs(SliceFrom(body, Len(m) + 1))))

\* the first line that methodRe matches (1-based), 0 when there is none
methodLineIndexOf(lines, name) ==
  LET first(hits) == IF hits = {} THEN 0 ELSE SetMin(hits)
  IN  first({i \in 1..Len(lines) : methodReTest(name, lines[i])})

\* the upward scan for the decorator line (1-based), 0 when not found
decoratorIndexOf(lines, methodLineIndex) ==
  LET nearest(stops) ==
        IF stops = {} THEN 0
        ELSE IF isToolDecoratorLine(lines[SetMax(stops)]) THEN SetMax(stops)
        ELSE 0
  IN  IF methodLineIndex = 0 THEN 0
      ELSE nearest({i \in 1..(methodLineIndex - 1) :
                      isToolDecoratorLine(lines[i]) \/ isMethodDefLine(lines[i])})

\* the keyword heuristic with the list keywords tested first
inferZodType_listFirst(desc) ==
  LET d == ToLower(desc)
  IN  IF \/ includes(d, <<"a","r","r","a","y">>)
         \/ includes(d, <<"l","i","s","t">>)
         \/ includes(d, <<"i","t","e","m","s">>) THEN "ZodArray"
      ELSE IF includes(d, <<"n","u","m","b","e","r">>) THEN "ZodNumber"
      ELSE IF \/ includes(d, <<"b","o","o","l","e","a","n">>)
              \/ includes(d, <<"t","r","u","e">>)
              \/ includes(d, <<"f","a","l","s","e">>) THEN "ZodBoolean"
      ELSE "ZodString"

\* the keyword heuristic on one @param description
inferZodType(desc) ==
  LET d == ToLower(desc)
  IN  IF includes(d, <<"n","u","m","b","e","r">>) THEN "ZodNumber"
      ELSE IF \/ includes(d, <<"b","o","o","l","e","a","n">>)
              \/ includes(d, <<"t","r","u","e">>)
              \/ includes(d, <<"f","a","l","s","e">>) THEN "ZodBoolean"
      ELSE IF \/ includes(d, <<"a","r","r","a","y">>)
              \/ includes(d, <<"l","i","s","t">>)
              \/ includes(d, <<"i","t","e","m","s">>) THEN "ZodArray"
      ELSE "ZodString"

\* z.any()
ZodAny == [kind |-> "ZodAny"]

\* z.object(shape); shape is the sequence of the fields in insertion order
ZodObject(shape) == [kind |-> "ZodObject", shape |-> shape]

\* ------------------------------------------------------------------------
\* The @tool decorator (index.ts)
\* ------------------------------------------------------------------------

\* a JavaScript string used as a condition: undefined and '' are falsy
truthy(str) == str # undefined /\ str # <<>>

\* what the debug log shows of the last documentation block parsed
NotParsed == [logged |-> FALSE]

\* the inference steps shared by both decorator forms: the call site, the file's
\* lines, the method and decorator lines, the block above and its parse.
\* found tells whether a documentation block was parsed; cache is the file
\* cache afterwards.
locateAndParseDoc(propertyKey, stack, disk, cache) ==
  LET notFound(c) == [found |-> FALSE, cache |-> c]
      fromRaw(got, docRaw) ==
        IF docRaw = undefined \/ docRaw = <<>> THEN notFound(got.cache)
        ELSE [found |-> TRUE, cache |-> got.cache, parsed |-> parseRawDocComment(docRaw)]
      fromDecorator(got, decoratorIndex) ==
        IF decoratorIndex < 1 THEN notFound(got.cache)
        ELSE fromRaw(got, extractDocCommentAbove(got.lines, decoratorIndex))
      fromLines(got) ==
        IF ~got.ok THEN notFound(got.cache)
        ELSE fromDecorator(got, decoratorIndexOf(got.lines,
                                                 methodLineIndexOf(got.lines, propertyKey)))
      fromFile(frameFile) ==
        IF frameFile = undefined \/ frameFile = <<>> THEN notFound(cache)
        ELSE fromLines(getFileLines(frameFile, disk, cache))
  IN  fromFile(getCallsiteFileFromStack(stack, {e.path : e \in disk}))

\* the shape built from the @param entries of a parsed block
inferShape(entries) ==
  [i \in 1..Len(entries) |->
     [key |-> entries[i].name, type |-> inferZodType(entries[i].desc)]]

\* a descriptor that takes the options as given, without defaults
legacyMetadata_noDefaults(target, propertyKey, options) ==
  [name        |-> IF truthy(options.name) THEN options.name ELSE propertyKey,
   description |-> options.description,
   parameters  |-> options.parameters,
   methodName  |-> propertyKey,
   target      |-> target]

\* applyLegacy: the metadata before inference
legacyMetadata(target, propertyKey, options) ==
  [name        |-> IF truthy(options.name) THEN options.name ELSE propertyKey,
   description |-> IF truthy(options.description) THEN options.description ELSE <<>>,
   parameters  |-> IF options.parameters # undefinedObj THEN options.parameters ELSE ZodAny,
   methodName  |-> propertyKey,
   target      |-> target]

\* a merge in which the documentation's description overrides an explicit one
legacyMerge_docOverrides(metadata, options, parsed) ==
  LET needDocForParams == options.parameters = undefinedObj
      withShape(m, shape) ==
        IF needDocForParams /\ Len(shape) > 0
        THEN [m EXCEPT !.parameters = ZodObject(shape)] ELSE m
      withParams(m) ==
        IF parsed.params # undefinedObj
        THEN withShape(m, inferShape(parsed.params.entries)) ELSE m
  IN  withParams([metadata EXCEPT
                    !.description = IF truthy(parsed.description)
                                    THEN parsed.description ELSE @])

\* applyLegacy: the parsed block merged into the metadata
legacyMerge(metadata, options, parsed) ==
  LET needDocForDescription == options.description = undefined
      needDocForParams == options.parameters = undefinedObj
      withShape(m, shape) ==
        IF needDocForParams /\ Len(shape) > 0
        THEN [m EXCEPT !.parameters = ZodObject(shape)] ELSE m
      withParams(m) ==
        IF parsed.params # undefinedObj
        THEN withShape(m, inferShape(parsed.params.entries)) ELSE m
  IN  withParams([metadata EXCEPT
                    !.description = IF needDocForDescription /\ truthy(parsed.description)
                                    THEN parsed.description ELSE @])

\* applyLegacy: the ToolMetadata pushed for one decorated method, the file cache
\* afterwards and the block parsed.  target is the class, stack the frames'
\* file names at the time of the call, disk the files that exist.
applyLegacy(target, propertyKey, options, stack, disk, cache) ==
  LET merged(metadata, doc) ==
        IF ~doc.found
        THEN [metadata |-> metadata, cache |-> doc.cache, parsed |-> NotParsed]
        ELSE [metadata |-> legacyMerge(metadata, options, doc.parsed),
              cache |-> doc.cache,
              parsed |-> [logged |-> TRUE, parsed |-> doc.parsed]]
      resolved(metadata) ==
        IF options.description # undefined /\ options.parameters # undefinedObj
        THEN [metadata |-> metadata, cache |-> cache, parsed |-> NotParsed]
        ELSE merged(metadata, locateAndParseDoc(propertyKey, stack, disk, cache))
  IN  resolved(legacyMetadata(target, propertyKey, options))

\* applyStandard: the metadata before inference
standardMetadata(ctor, name, options) ==
  [name        |-> IF truthy(options.name) THEN options.name ELSE name,
   description |-> IF truthy(options.description) THEN options.description ELSE <<>>,
   parameters  |-> IF options.parameters # undefinedObj THEN options.parameters ELSE ZodAny,
   methodName  |-> name,
   target      |-> ctor]

\* applyStandard: the parsed block merged into the metadata
standardMerge(metadata, options, parsed) ==
  LET needDocForDescription == options.description = undefined
      needDocForParams == options.parameters = undefinedObj
      withShape(m, shape) ==
        IF needDocForParams /\ Len(shape) > 0
        THEN [m EXCEPT !.parameters = ZodObject(shape)] ELSE m
      withParams(m) ==
        IF parsed.params # undefinedObj
        THEN withShape(m, inferShape(parsed.params.entries)) ELSE m
  IN  withParams([metadata EXCEPT
                    !.description = IF needDocForDescription /\ truthy(parsed.description)
                                    THEN parsed.description ELSE @])

\* applyStandard without the inference from the documentation block
applyStandard_noInference(ctor, name, options, stack, disk, cache) ==
  [metadata |-> standardMetadata(ctor, name, options), cache |-> cache, parsed |-> NotParsed]

\* applyStandard: what the initializer added by the decorator pushes when an
\* instance of the class is constructed
applyStandard(ctor, name, options, stack, disk, cache) ==
  LET merged(metadata, doc) ==
        IF ~doc.found
        THEN [metadata |-> metadata, cache |-> doc.cache, parsed |-> NotParsed]
        ELSE [metadata |-> standardMerge(metadata, options, doc.parsed),
              cache |-> doc.cache,
              parsed |-> [logged |-> TRUE, parsed |-> doc.parsed]]
      resolved(metadata) ==
        IF options.description # undefined /\ options.parameters # undefinedObj
        THEN [metadata |-> metadata, cache |-> cache, parsed |-> NotParsed]
        ELSE merged(metadata, locateAndParseDoc(name, stack, disk, cache))
  IN  resolved(standardMetadata(ctor, name, options))

\* ------------------------------------------------------------------------
\* The program: names, paths, call stacks and the source file
\* ------------------------------------------------------------------------
\* "add"
S_add == <<"a","d","d">>

\* "multiply"
S_multiply == <<"m","u","l","t","i","p","l","y">>

\* "product"
S_product == <<"p","r","o","d","u","c","t">>

\* "other"
S_other == <<"o","t","h","e","r">>

\* "nosuch"
S_nosuch == <<"n","o","s","u","c","h">>

\* "hi"
S_hi == <<"h","i">>

\* "greet"
S_greet == <<"g","r","e","e","t">>

\* "Greet a user by name"
S_greetDescription ==
  <<"G","r","e","e","t"," ","a"," ","u","s","e","r"," ","b","y"," ","n","a","m","e">>

\* "a"
K_a == <<"a">>

\* "b"
K_b == <<"b">>

\* "foo"
K_foo == <<"f","o","o">>

\* "bar"
K_bar == <<"b","a","r">>

\* "arguments"
K_arguments == <<"a","r","g","u","m","e","n","t","s">>

\* "/app/src/index.ts"
P_indexTs == <<"/","a","p","p","/","s","r","c","/","i","n","d","e","x",".","t","s">>

\* "/app/dist/index.js"
P_indexJs == <<"/","a","p","p","/","d","i","s","t","/","i","n","d","e","x",".","j","s">>

\* "/app/src/simple-demo.ts"
P_sourceTs ==
  <<"/","a","p","p","/","s","r","c","/","s","i","m","p","l","e","-","d","e","m","o",
    ".","t","s">>

\* "/app/dist/simple-demo.js"
P_sourceJs ==
  <<"/","a","p","p","/","d","i","s","t","/","s","i","m","p","l","e","-","d","e","m",
    "o",".","j","s">>

\* "/app/node_modules/tslib/tslib.js"
P_tslib ==
  <<"/","a","p","p","/","n","o","d","e","_","m","o","d","u","l","e","s","/","t","s",
    "l","i","b","/","t","s","l","i","b",".","j","s">>

\* "file:///app/dist/index.js"
P_indexUrl ==
  <<"f","i","l","e",":","/","/","/","a","p","p","/","d","i","s","t","/","i","n","d",
    "e","x",".","j","s">>

\* "file:///app/dist/simple-demo.js"
P_sourceUrl ==
  <<"f","i","l","e",":","/","/","/","a","p","p","/","d","i","s","t","/","s","i","m",
    "p","l","e","-","d","e","m","o",".","j","s">>

\* the documentation blocks a method of the program may carry, by name: the
\* lines written above the decorator
DocLines(doc) ==
  CASE doc = "none" -> <<>>
    [] doc = "full" ->
         <<<<" "," ","/","*","*">>,
           <<" "," "," ","*"," ","A","d","d"," ","t","w","o"," ","n","u","m","b","e","r","s",
             " ","t","o","g","e","t","h","e","r",".">>,
           <<" "," "," ","*"," ","@","p","a","r","a","m"," ","a"," ","F","i","r","s","t"," ",
             "n","u","m","b","e","r">>,
           <<" "," "," ","*"," ","@","p","a","r","a","m"," ","b"," ","S","e","c","o","n","d",
             " ","n","u","m","b","e","r">>,
           <<" "," "," ","*"," ","@","r","e","t","u","r","n","s"," ","S","u","m"," ","o","f",
             " ","a"," ","a","n","d"," ","b">>,
           <<" "," "," ","*","/">>>>
    [] doc = "multiply" ->
         <<<<" "," ","/","*","*">>,
           <<" "," "," ","*"," ","M","u","l","t","i","p","l","y"," ","t","w","o"," ","n","u",
             "m","b","e","r","s"," ","t","o","g","e","t","h","e","r",".">>,
           <<" "," "," ","*"," ","@","p","a","r","a","m"," ","a"," ","F","i","r","s","t"," ",
             "n","u","m","b","e","r">>,
           <<" "," "," ","*"," ","@","p","a","r","a","m"," ","b"," ","S","e","c","o","n","d",
             " ","n","u","m","b","e","r">>,
           <<" "," "," ","*"," ","@","r","e","t","u","r","n","s"," ","M","u","l","t","i","p",
             "l","y"," ","o","f"," ","a"," ","a","n","d"," ","b">>,
           <<" "," "," ","*","/">>>>
    [] doc = "tagsOnly" ->
         <<<<" "," ","/","*","*">>,
           <<" "," "," ","*"," ","@","p","a","r","a","m"," ","n","a","m","e"," ","N","a","m",
             "e"," ","t","o"," ","g","r","e","e","t">>,
           <<" "," "," ","*"," ","@","r","e","t","u","r","n","s"," ","A"," ","g","r","e","e",
             "t","i","n","g"," ","s","t","r","i","n","g">>,
           <<" "," "," ","*","/">>>>
    [] doc = "proseOnly" ->
         <<<<" "," ","/","*","*">>,
           <<" "," "," ","*"," ","S","i","m","p","l","e"," ","o","t","h","e","r"," ","t","o",
             "o","l">>,
           <<" "," "," ","*"," ","@","r","e","t","u","r","n","s"," ","a"," ","s","t","r","i",
             "n","g">>,
           <<" "," "," ","*","/">>>>
    [] doc = "mixed" ->
         <<<<" "," ","/","*","*">>,
           <<" "," "," ","*"," ","M","i","x","e","d"," ","k","e","y","w","o","r","d","s",".">>,
           <<" "," "," ","*"," ","@","p","a","r","a","m"," ","x"," ","a"," ","b","o","o","l",
             "e","a","n"," ","a","r","r","a","y">>,
           <<" "," "," ","*"," ","@","p","a","r","a","m"," ","y"," ","N","u","m","b","e","r",
             " ","o","f"," ","i","t","e","m","s">>,
           <<" "," "," ","*"," ","@","p","a","r","a","m"," ","z"," ","s","o","m","e"," ","l",
             "i","s","t"," ","o","f"," ","t","h","i","n","g","s">>,
           <<" "," "," ","*"," ","@","p","a","r","a","m"," ","w"," ","a","n"," ","a","r","b",
             "i","t","r","a","r","y"," ","v","a","l","u","e">>,
           <<" "," "," ","*"," ","@","p","a","r","a","m"," ","v"," ","T","R","U","E"," ","w",
             "h","e","n"," ","s","e","t">>,
           <<" "," "," ","*","/">>>>
    [] doc = "oneLine" ->
         <<<<" "," ","/","*","*"," ","S","a","y","s"," ","h","e","l","l","o","."," ","*","/">>>>
    [] doc = "empty" ->
         <<<<" "," ","/","*","*">>,
           <<" "," "," ","*","/">>>>
    [] doc = "detached" ->
         <<<<" "," ","/","*","*">>,
           <<" "," "," ","*"," ","C","o","u","n","t","s"," ","t","h","e"," ","c","a","l","l",
             "s",".">>,
           <<" "," "," ","*"," ","@","p","a","r","a","m"," ","n"," ","a"," ","n","u","m","b",
             "e","r">>,
           <<" "," "," ","*","/">>,
           <<" "," ","p","r","i","v","a","t","e"," ","c","o","u","n","t"," ","="," ","0",";">>>>

\* ------------------------------------------------------------------------
\* Values, argument payloads and schemas
\* ------------------------------------------------------------------------

\* JavaScript values that travel in requests and results
Num(n) == [t |-> "number", n |-> n, s |-> <<>>]

Str(s) == [t |-> "string", n |-> 0, s |-> s]

NaNValue == [t |-> "NaN", n |-> 0, s |-> <<>>]

NullValue == [t |-> "null", n |-> 0, s |-> <<>>]

UndefinedValue == [t |-> "undefined", n |-> 0, s |-> <<>>]

\* true
TrueValue == [t |-> "boolean", n |-> 1, s |-> <<>>]

\* an object nested in a payload, kept by its number of keys
ObjectValue(o) == [t |-> "object", n |-> Cardinality(o), s |-> <<>>]

\* an object is the set of its [key, value] fields
Field(k, v) == [key |-> k, value |-> v]

\* Object.keys(o)
keysOf(o) == {e.key : e \in o}

\* schema.parse(value) of one field type
zodTypeAccepts(type, v) ==
  CASE type = "ZodNumber"  -> v.t = "number"
    [] type = "ZodString"  -> v.t = "string"
    [] type = "ZodBoolean" -> v.t = "boolean"
    [] type = "ZodArray"   -> v.t = "array"
    [] type = "ZodOptional" -> v.t \in {"string", "undefined"}

\* "Required" / "Expected ..., received ...": the message of a ZodError
ZodErrorMessage == <<"i","n","v","a","l","i","d","_","t","y","p","e">>

\* z.object(shape).parse(obj): unknown keys are stripped, a missing or
\* ill-typed field throws
zodObjectParse(shape, obj) ==
  LET bad == {i \in 1..Len(shape) :
                /\ ~\E e \in obj : e.key = shape[i].key /\ zodTypeAccepts(shape[i].type, e.value)
                /\ ~(shape[i].type = "ZodOptional" /\ shape[i].key \notin keysOf(obj))}
  IN  IF bad = {}
      THEN [ok |-> TRUE, value |-> {e \in obj : \E i \in 1..Len(shape) : shape[i].key = e.key}]
      ELSE [ok |-> FALSE, message |-> ZodErrorMessage]

\* the decimal digits of a natural number
RECURSIVE natToString(_)
natToString(n) ==
  LET digit(d) == <<"0","1","2","3","4","5","6","7","8","9">>[d + 1]
  IN  IF n < 10 THEN <<digit(n)>> ELSE natToString(n \div 10) \o <<digit(n % 10)>>

\* Number.prototype.toString for an integer
numberToString(n) == IF n < 0 THEN <<"-">> \o natToString(0 - n) ELSE natToString(n)

\* JSON.stringify of a boolean or of an object without keys
jsonStringify(result) ==
  IF result.t = "boolean"
  THEN (IF result.n = 1 THEN <<"t","r","u","e">> ELSE <<"f","a","l","s","e">>)
  ELSE <<"{","}">>

\* a result text made by JSON.stringify alone
resultText_jsonOnly(result) ==
  CASE result.t = "string"    -> <<"\"">> \o result.s \o <<"\"">>
    [] result.t = "number"    -> numberToString(result.n)
    [] result.t = "NaN"       -> <<"n","u","l","l">>
    [] result.t = "null"      -> <<"n","u","l","l">>
    [] result.t = "undefined" -> <<"u","n","d","e","f","i","n","e","d">>
    [] OTHER                  -> jsonStringify(result)

\* the text of a tool result
resultText(result) ==
  CASE result.t = "string"    -> result.s
    [] result.t = "number"    -> numberToString(result.n)
    [] result.t = "NaN"       -> <<"N","a","N">>
    [] result.t = "null"      -> <<"n","u","l","l">>
    [] result.t = "undefined" -> <<"u","n","d","e","f","i","n","e","d">>
    [] OTHER                  -> jsonStringify(result)

\* ------------------------------------------------------------------------
\* The registries (Map objects keep the insertion order of their keys)
\* ------------------------------------------------------------------------

mapHas(map, k) == \E i \in 1..Len(map) : map[i].key = k

\* map.get(k) || []
mapGet(map, k) ==
  IF mapHas(map, k) THEN map[CHOOSE i \in 1..Len(map) : map[i].key = k].value ELSE <<>>

\* map.set(k, v): a key already present keeps its place
mapSet(map, k, v) ==
  IF mapHas(map, k)
  THEN [i \in 1..Len(map) |-> IF map[i].key = k THEN [key |-> k, value |-> v] ELSE map[i]]
  ELSE Append(map, [key |-> k, value |-> v])

\* a push that leaves out a descriptor whose method is already in the sequence
pushMetadata_dedup(map, target, metadata) ==
  IF mapHas(map, target)
  THEN [i \in 1..Len(map) |->
          IF map[i].key = target
             /\ \A j \in 1..Len(map[i].value) :
                  map[i].value[j].methodName # metadata.methodName
          THEN [key |-> target, value |-> Append(map[i].value, metadata)]
          ELSE map[i]]
  ELSE Append(map, [key |-> target, value |-> <<metadata>>])

\* getOrCreateMetadata(map, target).push(metadata)
pushMetadata(map, target, metadata) ==
  IF mapHas(map, target)
  THEN [i \in 1..Len(map) |->
          IF map[i].key = target
          THEN [key |-> target, value |-> Append(map[i].value, metadata)]
          ELSE map[i]]
  ELSE Append(map, [key |-> target, value |-> <<metadata>>])

\* Reflect.defineMetadata(TOOL_METADATA_KEY, metadata, target, propertyKey)
defineMetadata(reflect, target, propertyKey, metadata) ==
  {r \in reflect : ~(r.target = target /\ r.propertyKey = propertyKey)}
    \cup {[target |-> target, propertyKey |-> propertyKey, metadata |-> metadata]}

\* ------------------------------------------------------------------------
\* FastMCP: the CallTool handler and the listing
\* ------------------------------------------------------------------------

NoHandler == [installed |-> FALSE]

\* registerTool(toolMeta, instance): server.setRequestHandler replaces the
\* handler of CallToolRequestSchema by a closure over toolMeta and instance
registerTool(handler, toolMeta, instance) ==
  [installed |-> TRUE, toolMeta |-> toolMeta, instance |-> instance]

\* the for loop of register over the tools of the instance's class
RECURSIVE registerTools(_, _, _)
registerTools(handler, tools, instance) ==
  IF Len(tools) = 0 THEN handler
  ELSE registerTools(registerTool(handler, Head(tools), instance), Tail(tools), instance)

\* the argument payload: request.params.arguments || {}, or the other fields of
\* request.params when that is empty.  params is [name, hasArguments,
\* arguments, extra]; extra holds the fields other than name and arguments.
resolveRawArgs(params) ==
  LET rawArgs == IF params.hasArguments THEN params.arguments ELSE {}
      rest == params.extra \cup
              (IF params.hasArguments
               THEN {Field(K_arguments, ObjectValue(params.arguments))} ELSE {})
  IN  IF rawArgs = {} /\ rest # {} THEN rest ELSE rawArgs

\* a schema branch that parses with every object schema, the empty one included
parseToolArgs_parsesEmptyObject(parameters, rawArgs) ==
  IF parameters.kind = "ZodAny"
  THEN [ok |-> TRUE, value |-> rawArgs]
  ELSE zodObjectParse(parameters.shape, rawArgs)

\* the schema branch of the handler: the parsed arguments, or the error thrown
parseToolArgs(parameters, rawArgs) ==
  IF parameters.kind = "ZodObject" /\ Len(parameters.shape) = 0
  THEN [ok |-> TRUE, value |-> rawArgs]
  ELSE IF parameters.kind = "ZodAny"
  THEN [ok |-> TRUE, value |-> rawArgs]
  ELSE zodObjectParse(parameters.shape, rawArgs)

ToolErrorText(message) == <<"E","r","r","o","r",":"," ">> \o message

ToolNotFoundMessage(name) ==
  <<"T","o","o","l"," ">> \o name \o <<" ","n","o","t"," ","f","o","u","n","d">>

\* the protocol layer's answer when no handler is installed for the method
MethodNotFoundMessage == <<"M","e","t","h","o","d"," ","n","o","t"," ","f","o","u","n","d">>

\* a handler that answers an unknown name by an error-flagged response
callToolBegin_unknownAsResponse(handler, params) ==
  IF ~handler.installed
  THEN [phase |-> "responded", params |-> params, outcome |-> "throw",
        message |-> MethodNotFoundMessage]
  ELSE IF params.name # handler.toolMeta.name
  THEN [phase |-> "responded", params |-> params, outcome |-> "response",
        isError |-> TRUE, text |-> ToolErrorText(ToolNotFoundMessage(params.name)),
        invoked |-> FALSE]
  ELSE LET rawArgs == resolveRawArgs(params)
           parsed == parseToolArgs(handler.toolMeta.parameters, rawArgs)
       IN  IF parsed.ok
           THEN [phase |-> "awaiting", params |-> params, toolMeta |-> handler.toolMeta,
                 instance |-> handler.instance, parsedArgs |-> parsed.value]
           ELSE [phase |-> "responded", params |-> params, outcome |-> "response",
                 isError |-> TRUE, text |-> ToolErrorText(parsed.message),
                 invoked |-> FALSE]

\* the CallTool handler up to the await of the bound method
callToolBegin(handler, params) ==
  IF ~handler.installed
  THEN [phase |-> "responded", params |-> params, outcome |-> "throw",
        message |-> MethodNotFoundMessage]
  ELSE IF params.name # handler.toolMeta.name
  THEN [phase |-> "responded", params |-> params, outcome |-> "throw",
        message |-> ToolNotFoundMessage(params.name)]
  ELSE LET rawArgs == resolveRawArgs(params)
           parsed == parseToolArgs(handler.toolMeta.parameters, rawArgs)
       IN  IF parsed.ok
           THEN [phase |-> "awaiting", params |-> params, toolMeta |-> handler.toolMeta,
                 instance |-> handler.instance, parsedArgs |-> parsed.value]
           ELSE [phase |-> "responded", params |-> params, outcome |-> "response",
                 isError |-> TRUE, text |-> ToolErrorText(parsed.message),
                 invoked |-> FALSE]

\* the CallTool handler after the await: the method returned or threw
callToolEnd(awaiting, result) ==
  IF result.kind = "return"
  THEN [phase |-> "responded", params |-> awaiting.params, outcome |-> "response",
        isError |-> FALSE, text |-> resultText(result.value), invoked |-> TRUE,
        toolMeta |-> awaiting.toolMeta, instance |-> awaiting.instance,
        parsedArgs |-> awaiting.parsedArgs, result |-> result]
  ELSE [phase |-> "responded", params |-> awaiting.params, outcome |-> "response",
        isError |-> TRUE, text |-> ToolErrorText(result.message), invoked |-> TRUE,
        toolMeta |-> awaiting.toolMeta, instance |-> awaiting.instance,
        parsedArgs |-> awaiting.parsedArgs, result |-> result]

\* the keys of the fields of a shape that are not ZodOptional, in order
RECURSIVE requiredKeys(_)
requiredKeys(shape) ==
  IF Len(shape) = 0 THEN <<>>
  ELSE (IF Head(shape).type # "ZodOptional" THEN <<Head(shape).key>> ELSE <<>>)
       \o requiredKeys(Tail(shape))

\* zodToJsonSchema(schema)
zodToJsonSchema(schema) ==
  IF schema.kind = "ZodAny"
  THEN [type |-> "object", additionalProperties |-> TRUE]
  ELSE IF schema.kind = "ZodObject"
  THEN [type |-> "object",
        properties |-> [i \in 1..Len(schema.shape) |->
                          [key  |-> schema.shape[i].key,
                           type |-> CASE schema.shape[i].type = "ZodNumber"  -> "number"
                                      [] schema.shape[i].type = "ZodString"  -> "string"
                                      [] schema.shape[i].type = "ZodBoolean" -> "boolean"
                                      [] schema.shape[i].type = "ZodArray"   -> "array"
                                      [] OTHER -> "object"]],
        required |-> IF requiredKeys(schema.shape) # <<>>
                     THEN [kind |-> "array", items |-> requiredKeys(schema.shape)]
                     ELSE undefinedObj]
  ELSE [type |-> "object"]

\* the concatenation of a sequence of sequences
RECURSIVE flatten(_)
flatten(seqs) == IF Len(seqs) = 0 THEN <<>> ELSE Head(seqs) \o flatten(Tail(seqs))

\* a listing that walks the classes of the registry from the last to the first
listToolsHandler_lastClassFirst(map) ==
  flatten([i \in 1..Len(map) |->
             [j \in 1..Len(map[Len(map) + 1 - i].value) |->
                [name        |-> map[Len(map) + 1 - i].value[j].name,
                 description |-> map[Len(map) + 1 - i].value[j].description,
                 inputSchema |-> zodToJsonSchema(map[Len(map) + 1 - i].value[j].parameters)]]])

\* the ListTools handler: every descriptor of the registry, class by class
listToolsHandler(map) ==
  flatten([i \in 1..Len(map) |->
             [j \in 1..Len(map[i].value) |->
                [name        |-> map[i].value[j].name,
                 description |-> map[i].value[j].description,
                 inputSchema |-> zodToJsonSchema(map[i].value[j].parameters)]]])

\* ------------------------------------------------------------------------
\* The program under the framework
\* ------------------------------------------------------------------------

\* the classes of the source file, in the order the file declares them
ClassOrder == <<"SimpleMcp", "OtherMap">>

Classes == {ClassOrder[i] : i \in 1..Len(ClassOrder)}

\* the most instances constructed of one class
MaxInstances == 2

NoOptions == [name |-> undefined, description |-> undefined, parameters |-> undefinedObj]

\* z.object({ a: z.number(), b: z.number() })
NumberPairSchema ==
  ZodObject(<<[key |-> K_a, type |-> "ZodNumber"], [key |-> K_b, type |-> "ZodNumber"]>>)

\* z.object({ a: z.string(), b: z.string().optional() })
OptionalFieldSchema ==
  ZodObject(<<[key |-> K_a, type |-> "ZodString"], [key |-> K_b, type |-> "ZodOptional"]>>)

\* tests/simple-demo.ts: SimpleMcp.add, SimpleMcp.multiply and OtherMap.other
DemoClasses ==
  [c \in Classes |->
     IF c = "SimpleMcp"
     THEN <<[propertyKey |-> S_add, options |-> NoOptions, doc |-> "full"],
            [propertyKey |-> S_multiply,
             options |-> [name |-> S_product, description |-> undefined,
                          parameters |-> NumberPairSchema],
             doc |-> "multiply"]>>
     ELSE <<[propertyKey |-> S_other, options |-> NoOptions, doc |-> "proseOnly"]>>]

\* the call stacks a decorator may run under: TypeScript run in place, compiled
\* output beside its source, ES module frames (file URLs), no user frame at all
StackTs == <<P_indexTs, P_sourceTs>>

StackDist == <<P_indexJs, undefined, P_tslib, P_sourceJs>>

StackEsm == <<P_indexUrl, P_sourceUrl>>

StackNone == <<P_indexTs, P_tslib>>

\* the lines of a string literal option, e.g.  name: 'product',
OptionLine(label, value) ==
  <<" "," "," "," ">> \o label \o <<":"," ","'">> \o value \o <<"'",",">>

\* the lines of the decorator as written for the options
DecoratorLines(options) ==
  IF options = NoOptions THEN << <<" "," ","@","t","o","o","l">> >>
  ELSE << <<" "," ","@","t","o","o","l","(","{">> >>
       \o (IF options.name # undefined
           THEN <<OptionLine(<<"n","a","m","e">>, options.name)>> ELSE <<>>)
       \o (IF options.description # undefined
           THEN <<OptionLine(<<"d","e","s","c","r","i","p","t","i","o","n">>,
                             options.description)>>
           ELSE <<>>)
       \o (IF options.parameters # undefinedObj
           THEN << <<" "," "," "," ","p","a","r","a","m","e","t","e","r","s",":"," ",
                     "s","c","h","e","m","a",",">> >>
           ELSE <<>>)
       \o << <<" "," ","}",")">> >>

\* the lines of one decorated method: documentation, decorator, definition
MethodLines(decl) ==
  DocLines(decl.doc)
    \o DecoratorLines(decl.options)
    \o << <<" "," ","a","s","y","n","c"," ">> \o decl.propertyKey
            \o <<"(","a","r","g","s",")"," ","{">>,
          <<" "," ","}">>,
          <<>> >>

\* the lines of one class
ClassLines(c, decls) ==
  << <<"c","l","a","s","s"," ","C"," ","{">> >>
    \o flatten([i \in 1..Len(decls) |-> MethodLines(decls[i])])
    \o << <<"}">>, <<>> >>

\* the text of the source file of a program
SourceText(classes) ==
  join(flatten([i \in 1..Len(ClassOrder) |-> ClassLines(ClassOrder[i], classes[ClassOrder[i]])]),
       <<"\n">>)

\* the files on disk
DiskOf(classes) == {[path |-> P_sourceTs, text |-> SourceText(classes)]}

\* ------------------------------------------------------------------------
\* FastMCP: prompts, resources and transports
\* ------------------------------------------------------------------------

\* the descriptor of @prompt(options): {...options, methodName, target}
promptMetadata(target, propertyKey, options) ==
  [name |-> options.name, description |-> options.description,
   arguments |-> options.arguments, methodName |-> propertyKey, target |-> target]

\* the descriptor of @resource(options): {...options, methodName, target}
resourceMetadata(target, propertyKey, options) ==
  [uri |-> options.uri, name |-> options.name, description |-> options.description,
   mimeType |-> options.mimeType, methodName |-> propertyKey, target |-> target]

\* registerPrompt(promptMeta, instance): server.setRequestHandler replaces the
\* handler of GetPromptRequestSchema by a closure over promptMeta and instance
registerPrompt(handler, promptMeta, instance) ==
  [installed |-> TRUE, promptMeta |-> promptMeta, instance |-> instance]

\* the for loop of register over the prompts of the instance's class
RECURSIVE registerPrompts(_, _, _)
registerPrompts(handler, prompts, instance) ==
  IF Len(prompts) = 0 THEN handler
  ELSE registerPrompts(registerPrompt(handler, Head(prompts), instance), Tail(prompts),
                       instance)

\* registerResource(resourceMeta, instance): the handler of
\* ReadResourceRequestSchema is replaced in the same way
registerResource(handler, resourceMeta, instance) ==
  [installed |-> TRUE, resourceMeta |-> resourceMeta, instance |-> instance]

\* the for loop of register over the resources of the instance's class
RECURSIVE registerResources(_, _, _)
registerResources(handler, resources, instance) ==
  IF Len(resources) = 0 THEN handler
  ELSE registerResources(registerResource(handler, Head(resources), instance),
                         Tail(resources), instance)

\* typeof result === 'string' ? result : JSON.stringify(result)
stringOrJson(result) ==
  CASE result.t = "string"    -> result.s
    [] result.t = "number"    -> numberToString(result.n)
    [] result.t = "NaN"       -> <<"n","u","l","l">>
    [] result.t = "null"      -> <<"n","u","l","l">>
    [] result.t = "undefined" -> undefined
    [] OTHER                  -> jsonStringify(result)

PromptErrorMessage(name, message) ==
  <<"E","r","r","o","r"," ","i","n"," ","p","r","o","m","p","t"," ">> \o name \o <<":"," ">> \o message

PromptNotFoundMessage(name) == <<"P","r","o","m","p","t"," ">> \o name \o <<" ","n","o","t"," ","f","o","u","n","d">>

\* the GetPrompt handler up to the await of the bound method; params is
\* [name, hasArguments, arguments]
getPromptBegin(handler, params) ==
  LET thrown(message) ==
        [phase |-> "responded", request |-> "prompts/get", params |-> params,
         outcome |-> "throw", message |-> message, invoked |-> FALSE]
      invoke(parsedArgs) ==
        [phase |-> "awaiting", request |-> "prompts/get", params |-> params,
         promptMeta |-> handler.promptMeta, instance |-> handler.instance,
         parsedArgs |-> parsedArgs]
      checked(promptMeta, parsed) ==
        IF parsed.ok THEN invoke(parsed.value)
        ELSE thrown(PromptErrorMessage(promptMeta.name, parsed.message))
  IN  IF ~handler.installed THEN thrown(MethodNotFoundMessage)
      ELSE IF params.name # handler.promptMeta.name
      THEN thrown(PromptNotFoundMessage(params.name))
      ELSE IF handler.promptMeta.arguments # undefinedObj /\ params.hasArguments
      THEN checked(handler.promptMeta,
                   zodObjectParse(handler.promptMeta.arguments.shape, params.arguments))
      ELSE invoke({})

\* the GetPrompt handler after the await: the method returned or threw
getPromptEnd(awaiting, result) ==
  IF result.kind = "return"
  THEN [phase |-> "responded", request |-> "prompts/get", params |-> awaiting.params,
        outcome |-> "response",
        description |-> IF truthy(awaiting.promptMeta.description)
                        THEN awaiting.promptMeta.description ELSE <<>>,
        role |-> "user", type |-> "text", text |-> stringOrJson(result.value),
        invoked |-> TRUE, promptMeta |-> awaiting.promptMeta,
        instance |-> awaiting.instance, parsedArgs |-> awaiting.parsedArgs,
        result |-> result]
  ELSE [phase |-> "responded", request |-> "prompts/get", params |-> awaiting.params,
        outcome |-> "throw",
        message |-> PromptErrorMessage(awaiting.promptMeta.name, result.message),
        invoked |-> TRUE, promptMeta |-> awaiting.promptMeta,
        instance |-> awaiting.instance, parsedArgs |-> awaiting.parsedArgs,
        result |-> result]

\* a RegExp of the form /^literal(.+)$/ is [kind, literal]; re.test(uri): the
\* literal at the start followed by at least one character
regExpTest(re, uri) == MatchAt(uri, re.literal, 1) /\ Len(uri) > Len(re.literal)

\* the flags of a RegExp; a literal written without flags has none
flagsOf(re) == IF "flags" \in DOMAIN re THEN re.flags ELSE {}

\* re.test(uri) for a RegExp whose lastIndex is lastIndex: with the g or y flag
\* the match starts at lastIndex, which only ^ at 0 can satisfy, and lastIndex
\* becomes the end of the match, or 0 when there is none; without these flags
\* lastIndex is neither read nor written
regExpExec(re, uri, lastIndex) ==
  IF flagsOf(re) \cap {"g", "y"} = {}
  THEN [matches |-> regExpTest(re, uri), lastIndex |-> lastIndex]
  ELSE IF lastIndex = 0 /\ regExpTest(re, uri)
  THEN [matches |-> TRUE, lastIndex |-> Len(uri)]
  ELSE [matches |-> FALSE, lastIndex |-> 0]

\* typeof resourceMeta.uri === 'string' ? uri === resourceMeta.uri
\*                                      : resourceMeta.uri.test(uri)
uriMatches(matcher, uri, lastIndex) ==
  IF matcher.kind = "string" THEN uri = matcher.value
  ELSE regExpExec(matcher, uri, lastIndex).matches

\* the lastIndex of the RegExp of a resource descriptor
lastIndexOf(heap, resourceMeta) ==
  LET found == {e \in heap : e.target = resourceMeta.target
                              /\ e.methodName = resourceMeta.methodName}
  IN  IF found = {} THEN 0 ELSE (CHOOSE e \in found : TRUE).lastIndex

\* the lastIndex values after the ReadResource handler has tested the uri
lastIndexAfterRead(handler, params, heap) ==
  LET others(meta) == {e \in heap : ~(e.target = meta.target
                                       /\ e.methodName = meta.methodName)}
      stored(meta, n) ==
        others(meta) \cup (IF n = 0 THEN {}
                           ELSE {[target |-> meta.target, methodName |-> meta.methodName,
                                  lastIndex |-> n]})
  IN  IF ~handler.installed \/ handler.resourceMeta.uri.kind = "string" THEN heap
      ELSE stored(handler.resourceMeta,
                  regExpExec(handler.resourceMeta.uri, params.uri,
                             lastIndexOf(heap, handler.resourceMeta)).lastIndex)

ResourceErrorMessage(uri, message) ==
  <<"E","r","r","o","r"," ","r","e","a","d","i","n","g"," ","r","e","s","o","u","r","c","e"," ">> \o uri \o <<":"," ">> \o message

ResourceNotFoundMessage(uri) == <<"R","e","s","o","u","r","c","e"," ">> \o uri \o <<" ","n","o","t"," ","f","o","u","n","d">>

\* "text/plain"
TextPlain == <<"t","e","x","t","/","p","l","a","i","n">>

\* the ReadResource handler up to the await of the bound method; params is [uri]
readResourceBegin(handler, params, heap) ==
  LET thrown(message) ==
        [phase |-> "responded", request |-> "resources/read", params |-> params,
         outcome |-> "throw", message |-> message, invoked |-> FALSE]
  IN  IF ~handler.installed THEN thrown(MethodNotFoundMessage)
      ELSE IF uriMatches(handler.resourceMeta.uri, params.uri,
                         lastIndexOf(heap, handler.resourceMeta))
      THEN [phase |-> "awaiting", request |-> "resources/read", params |-> params,
            resourceMeta |-> handler.resourceMeta, instance |-> handler.instance,
            methodArgs |-> [uri |-> params.uri]]
      ELSE thrown(ResourceNotFoundMessage(params.uri))

\* the ReadResource handler after the await: the method returned or threw
readResourceEnd(awaiting, result) ==
  IF result.kind = "return"
  THEN [phase |-> "responded", request |-> "resources/read", params |-> awaiting.params,
        outcome |-> "response", uri |-> awaiting.params.uri,
        mimeType |-> IF truthy(awaiting.resourceMeta.mimeType)
                     THEN awaiting.resourceMeta.mimeType ELSE TextPlain,
        text |-> stringOrJson(result.value), invoked |-> TRUE,
        resourceMeta |-> awaiting.resourceMeta, instance |-> awaiting.instance,
        methodArgs |-> awaiting.methodArgs, result |-> result]
  ELSE [phase |-> "responded", request |-> "resources/read", params |-> awaiting.params,
        outcome |-> "throw",
        message |-> ResourceErrorMessage(awaiting.params.uri, result.message),
        invoked |-> TRUE, resourceMeta |-> awaiting.resourceMeta,
        instance |-> awaiting.instance, methodArgs |-> awaiting.methodArgs,
        result |-> result]

\* the discriminants of TransportConfig
T_stdio == <<"s","t","d","i","o">>

T_sse == <<"s","s","e">>

T_streamableHttp == <<"s","t","r","e","a","m","a","b","l","e","H","t","t","p">>

UnsupportedTransportMessage(type) == <<"U","n","s","u","p","p","o","r","t","e","d"," ","t","r","a","n","s","p","o","r","t"," ","t","y","p","e",":"," ">> \o type

\* a createTransport that falls back to stdio for an unknown type
createTransport_defaultsToStdio(config) ==
  CASE config.type = T_sse ->
         [ok |-> TRUE, transport |-> [kind |-> "SSEServerTransport"]]
    [] config.type = T_streamableHttp ->
         [ok |-> TRUE, transport |-> [kind |-> "StreamableHTTPServerTransport"]]
    [] OTHER ->
         [ok |-> TRUE, transport |-> [kind |-> "StdioServerTransport"]]

\* createTransport(config): the transport made, or the error thrown
createTransport(config) ==
  CASE config.type = T_stdio ->
         [ok |-> TRUE, transport |-> [kind |-> "StdioServerTransport"]]
    [] config.type = T_sse ->
         [ok |-> TRUE, transport |-> [kind |-> "SSEServerTransport"]]
    [] config.type = T_streamableHttp ->
         [ok |-> TRUE, transport |-> [kind |-> "StreamableHTTPServerTransport"]]
    [] OTHER ->
         [ok |-> FALSE, message |-> UnsupportedTransportMessage(config.type)]

\* ------------------------------------------------------------------------
\* State
\* ------------------------------------------------------------------------

VARIABLES
  program,          \* the source compiled: [bindingModel, stack, classes]
  defined,          \* the classes whose definition has been evaluated
  constructed,      \* the class of every instance constructed, in order of construction
  fileLinesCache,   \* the set of [path, lines] entries of the file cache
  lastParsedDoc,    \* the block last logged as 'Parsed doc comment', if any
  toolsMetadata,    \* the tool registry: a Map from class to ToolMetadata[]
  reflectMetadata,  \* the reflect-metadata entries of TOOL_METADATA_KEY
  instances,        \* FastMCP.instances: a Map from class to the instance bound
  callToolHandler,  \* the handler installed for CallToolRequestSchema
  call,             \* the request in progress, or the response the last step sent
  promptsMetadata,    \* the prompt registry: a Map from class to PromptMetadata[]
  resourcesMetadata,  \* the resource registry: a Map from class to ResourceMetadata[]
  promptReflect,      \* the reflect-metadata entries of PROMPT_METADATA_KEY
  resourceReflect,    \* the reflect-metadata entries of RESOURCE_METADATA_KEY
  getPromptHandler,   \* the handler installed for GetPromptRequestSchema
  readResourceHandler, \* the handler installed for ReadResourceRequestSchema
  transport,          \* FastMCP.transport
  regExpLastIndex,    \* the lastIndex of the RegExp of a resource descriptor, where not 0
  docInput,           \* the lines and the anchor handed to the doc-comment functions
  docOutput           \* what the doc-comment functions returned for docInput

\* the state of the prompt, resource and transport side of the server
serveVars == <<promptsMetadata, resourcesMetadata, promptReflect, resourceReflect,
               getPromptHandler, readResourceHandler, transport, regExpLastIndex>>

docVars == <<docInput, docOutput>>

vars == <<program, defined, constructed, fileLinesCache, lastParsedDoc, toolsMetadata,
          reflectMetadata, instances, callToolHandler, call, serveVars, docVars>>

Disk == DiskOf(program.classes)

\* the decorators of a class applied in the order of its methods; apply is
\* applyLegacy or applyStandard
RECURSIVE applyDecorators(_, _, _, _)
applyDecorators(legacy, c, decls, st) ==
  LET apply(d) ==
        IF legacy
        THEN applyLegacy(c, d.propertyKey, d.options, program.stack, Disk, st.cache)
        ELSE applyStandard(c, d.propertyKey, d.options, program.stack, Disk, st.cache)
      after(d, r) ==
        [tools   |-> pushMetadata(st.tools, c, r.metadata),
         reflect |-> defineMetadata(st.reflect, c, d.propertyKey, r.metadata),
         cache   |-> r.cache,
         parsed  |-> IF r.parsed.logged THEN r.parsed ELSE st.parsed]
  IN  IF Len(decls) = 0 THEN st
      ELSE applyDecorators(legacy, c, Tail(decls), after(Head(decls), apply(Head(decls))))

\* the methods of class c decorated by @prompt and by @resource, in source
\* order; a program without such methods has no such field
promptDeclsOf(c) == IF "prompts" \in DOMAIN program THEN program.prompts[c] ELSE <<>>

resourceDeclsOf(c) == IF "resources" \in DOMAIN program THEN program.resources[c] ELSE <<>>

\* what a method decorator receives for a method of class c: under legacy
\* decorators the prototype (model name c, constructor c) and the method name,
\* under standard decorators the method function (constructor Function) and
\* the context object
decoratorTarget(c, propertyKey) ==
  IF program.bindingModel = "legacy"
  THEN [target |-> c, constructor |-> c, propertyKey |-> propertyKey]
  ELSE [target |-> [function |-> propertyKey, of |-> c], constructor |-> "Function",
        propertyKey |-> [kind |-> "context", name |-> propertyKey]]

\* the @prompt decorators of a class applied in the order of its methods;
\* st is [registry, reflect]
RECURSIVE applyPrompts(_, _, _)
applyPrompts(c, decls, st) ==
  LET after(at, options) ==
        [registry |-> pushMetadata(st.registry, at.constructor,
                        promptMetadata(at.constructor, at.propertyKey, options)),
         reflect  |-> defineMetadata(st.reflect, at.target, at.propertyKey,
                        promptMetadata(at.constructor, at.propertyKey, options))]
  IN  IF Len(decls) = 0 THEN st
      ELSE applyPrompts(c, Tail(decls),
             after(decoratorTarget(c, Head(decls).propertyKey), Head(decls).options))

\* the @resource decorators of a class applied in the order of its methods
RECURSIVE applyResources(_, _, _)
applyResources(c, decls, st) ==
  LET after(at, options) ==
        [registry |-> pushMetadata(st.registry, at.constructor,
                        resourceMetadata(at.constructor, at.propertyKey, options)),
         reflect  |-> defineMetadata(st.reflect, at.target, at.propertyKey,
                        resourceMetadata(at.constructor, at.propertyKey, options))]
  IN  IF Len(decls) = 0 THEN st
      ELSE applyResources(c, Tail(decls),
             after(decoratorTarget(c, Head(decls).propertyKey), Head(decls).options))

\* a step after which no request is in progress
callAfterStep_dropsAwaiting == [phase |-> "idle"]

\* the request in progress stays; a response is seen only in the step that sends it
callAfterStep == IF call.phase = "awaiting" THEN call ELSE [phase |-> "idle"]

\* the number of instances constructed of class c
instancesOf(c) == Cardinality({i \in 1..Len(constructed) : constructed[i] = c})

Registries ==
  [tools |-> toolsMetadata, reflect |-> reflectMetadata, cache |-> fileLinesCache,
   parsed |-> lastParsedDoc]

\* no documentation function is under test
NoDoc == docInput = undefinedObj /\ docOutput = undefinedObj

\* the state after construction of the server: nothing declared yet
InitServer ==
  /\ defined = {}
  /\ constructed = <<>>
  /\ fileLinesCache = {}
  /\ lastParsedDoc = NotParsed
  /\ toolsMetadata = <<>>
  /\ reflectMetadata = {}
  /\ instances = <<>>
  /\ callToolHandler = NoHandler
  /\ call = [phase |-> "idle"]
  /\ promptsMetadata = <<>>
  /\ resourcesMetadata = <<>>
  /\ promptReflect = {}
  /\ resourceReflect = {}
  /\ getPromptHandler = NoHandler
  /\ readResourceHandler = NoHandler
  /\ transport = undefinedObj
  /\ regExpLastIndex = {}

Init ==
  /\ program \in [bindingModel : {"legacy", "standard"},
                  stack : {StackTs, StackEsm},
                  classes : {DemoClasses}]
  /\ InitServer
  /\ NoDoc

\* the class definition is evaluated: legacy tool decorators run now, standard
\* tool decorators only add an initializer; prompt and resource decorators run
\* now in either form
DefineClass(c) ==
  LET store(st) ==
        /\ toolsMetadata' = st.tools
        /\ reflectMetadata' = st.reflect
        /\ fileLinesCache' = st.cache
        /\ lastParsedDoc' = st.parsed
      storeServe(prompts, resources) ==
        /\ promptsMetadata' = prompts.registry
        /\ promptReflect' = prompts.reflect
        /\ resourcesMetadata' = resources.registry
        /\ resourceReflect' = resources.reflect
  IN  /\ c \notin defined
      /\ \A i \in 1..Len(ClassOrder) :
           ClassOrder[i] = c => \A j \in 1..(i - 1) : ClassOrder[j] \in defined
      /\ defined' = defined \cup {c}
      /\ store(IF program.bindingModel = "legacy"
               THEN applyDecorators(TRUE, c, program.classes[c], Registries)
               ELSE Registries)
      /\ storeServe(applyPrompts(c, promptDeclsOf(c),
                                  [registry |-> promptsMetadata, reflect |-> promptReflect]),
                    applyResources(c, resourceDeclsOf(c),
                                   [registry |-> resourcesMetadata,
                                    reflect |-> resourceReflect]))
      /\ call' = callAfterStep
      /\ UNCHANGED <<program, constructed, instances, callToolHandler, getPromptHandler,
                     readResourceHandler, transport, regExpLastIndex, docVars>>

\* new C(): under standard decorators the initializers run
Construct(c) ==
  LET store(st) ==
        /\ toolsMetadata' = st.tools
        /\ reflectMetadata' = st.reflect
        /\ fileLinesCache' = st.cache
        /\ lastParsedDoc' = st.parsed
  IN  /\ c \in defined
      /\ instancesOf(c) < MaxInstances
      /\ constructed' = Append(constructed, c)
      /\ store(IF program.bindingModel = "standard"
               THEN applyDecorators(FALSE, c, program.classes[c], Registries)
               ELSE Registries)
      /\ call' = callAfterStep
      /\ UNCHANGED <<program, defined, instances, callToolHandler, serveVars, docVars>>

\* the fallback of register: the reflect-metadata of the prototype's own methods
RECURSIVE reflectScan(_, _, _)
reflectScan(reflect, c, decls) ==
  IF Len(decls) = 0 THEN <<>>
  ELSE LET found == {r \in reflect : r.target = c /\ r.propertyKey = Head(decls).propertyKey}
       IN  (IF found = {} THEN <<>> ELSE <<(CHOOSE r \in found : TRUE).metadata>>)
           \o reflectScan(reflect, c, Tail(decls))

\* the tools register binds for an instance of class c
toolsToRegister(c) ==
  IF Len(mapGet(toolsMetadata, c)) = 0
  THEN reflectScan(reflectMetadata, c, program.classes[c])
  ELSE mapGet(toolsMetadata, c)

\* Reflect.getMetadata(key, prototype, name) over the prototype's own methods
\* sees the entries defined on a prototype: those of legacy decorators
onPrototype(reflect) == IF program.bindingModel = "legacy" THEN reflect ELSE {}

\* the prompts register binds for an instance of class c
promptsToRegister(c) ==
  IF Len(mapGet(promptsMetadata, c)) = 0
  THEN reflectScan(onPrototype(promptReflect), c, promptDeclsOf(c))
  ELSE mapGet(promptsMetadata, c)

\* the resources register binds for an instance of class c
resourcesToRegister(c) ==
  IF Len(mapGet(resourcesMetadata, c)) = 0
  THEN reflectScan(onPrototype(resourceReflect), c, resourceDeclsOf(c))
  ELSE mapGet(resourcesMetadata, c)

\* server.register(instance), instance the id-th instance of class c
Register(c, id) ==
  /\ id \in 1..instancesOf(c)
  /\ instances' = mapSet(instances, c, [class |-> c, id |-> id])
  /\ callToolHandler' =
       registerTools(callToolHandler, toolsToRegister(c), [class |-> c, id |-> id])
  /\ getPromptHandler' =
       registerPrompts(getPromptHandler, promptsToRegister(c), [class |-> c, id |-> id])
  /\ readResourceHandler' =
       registerResources(readResourceHandler, resourcesToRegister(c),
                         [class |-> c, id |-> id])
  /\ call' = callAfterStep
  /\ UNCHANGED <<program, defined, constructed, fileLinesCache, lastParsedDoc,
                 toolsMetadata, reflectMetadata, promptsMetadata, resourcesMetadata,
                 promptReflect, resourceReflect, transport, regExpLastIndex, docVars>>

\* the requests of the model: every shape of arguments and extra fields for the
\* tool other, every shape of arguments for product, and one request for add
\* and for an unknown name
RequestArguments ==
  {[has |-> FALSE, obj |-> {}],
   [has |-> TRUE, obj |-> {}],
   [has |-> TRUE, obj |-> {Field(K_a, Num(2)), Field(K_b, Num(3))}],
   [has |-> TRUE, obj |-> {Field(K_a, Str(S_add)), Field(K_b, Num(3))}]}

RequestExtras == {{}, {Field(K_foo, Num(1)), Field(K_bar, Num(2))}}

Requests ==
  {[name |-> S_other, hasArguments |-> a.has, arguments |-> a.obj, extra |-> x] :
     a \in RequestArguments, x \in RequestExtras}
  \cup
  {[name |-> S_product, hasArguments |-> a.has, arguments |-> a.obj, extra |-> {}] :
     a \in RequestArguments}
  \cup
  {[name |-> n, hasArguments |-> TRUE,
    arguments |-> {Field(K_a, Num(2)), Field(K_b, Num(3))}, extra |-> {}] :
     n \in {S_add, S_nosuch}}

\* what a bound method may do with its argument: return a value or throw
MethodResults ==
  {[kind |-> "return", value |-> Num(5)],
   [kind |-> "return", value |-> Str(S_other)],
   [kind |-> "throw", message |-> <<"b","o","o","m">>]}

\* a CallTool request arrives and runs up to the await of the bound method
CallToolRequest(params) ==
  /\ call.phase # "awaiting"
  /\ call' = callToolBegin(callToolHandler, params)
  /\ UNCHANGED <<program, defined, constructed, fileLinesCache, lastParsedDoc,
                 toolsMetadata, reflectMetadata, instances, callToolHandler, serveVars,
                 docVars>>

\* the awaited method settles and the handler answers
CallToolSettle(result) ==
  /\ call.phase = "awaiting"
  /\ call' = callToolEnd(call, result)
  /\ UNCHANGED <<program, defined, constructed, fileLinesCache, lastParsedDoc,
                 toolsMetadata, reflectMetadata, instances, callToolHandler, serveVars,
                 docVars>>

\* a ListTools request
ListTools ==
  /\ call.phase # "awaiting"
  /\ call' = [phase |-> "listed", tools |-> listToolsHandler(toolsMetadata)]
  /\ UNCHANGED <<program, defined, constructed, fileLinesCache, lastParsedDoc,
                 toolsMetadata, reflectMetadata, instances, callToolHandler, serveVars,
                 docVars>>

Next ==
  \/ \E c \in Classes : DefineClass(c)
  \/ \E c \in Classes : Construct(c)
  \/ \E c \in Classes : \E id \in 1..MaxInstances : Register(c, id)
  \/ \E params \in Requests : CallToolRequest(params)
  \/ \E result \in MethodResults : CallToolSettle(result)
  \/ ListTools

Spec == Init /\ [][Next]_vars

\* ------------------------------------------------------------------------
\* What each documentation block says, read by hand: the summary a reader sees
\* in the block attached to the method and the type each @param line calls for
\* ------------------------------------------------------------------------

\* the summary of the block attached to the method; undefined when the block has
\* no prose, when there is no block or when other code separates it from the method
DocSummary(doc) ==
  CASE doc = "none" -> undefined
    [] doc = "full" -> <<"A","d","d"," ","t","w","o"," ","n","u","m","b","e","r","s"," ","t","o","g","e",
           "t","h","e","r",".">>
    [] doc = "multiply" -> <<"M","u","l","t","i","p","l","y"," ","t","w","o"," ","n","u","m","b","e","r","s",
           " ","t","o","g","e","t","h","e","r",".">>
    [] doc = "tagsOnly" -> undefined
    [] doc = "proseOnly" -> <<"S","i","m","p","l","e"," ","o","t","h","e","r"," ","t","o","o","l">>
    [] doc = "mixed" -> <<"M","i","x","e","d"," ","k","e","y","w","o","r","d","s",".">>
    [] doc = "oneLine" -> <<"S","a","y","s"," ","h","e","l","l","o",".">>
    [] doc = "empty" -> undefined
    [] doc = "detached" -> undefined

\* the fields the @param lines of the attached block call for, in order
DocFields(doc) ==
  CASE doc = "none" -> <<>>
    [] doc = "full" ->
         <<[key |-> <<"a">>, type |-> "ZodNumber"],
           [key |-> <<"b">>, type |-> "ZodNumber"]>>
    [] doc = "multiply" ->
         <<[key |-> <<"a">>, type |-> "ZodNumber"],
           [key |-> <<"b">>, type |-> "ZodNumber"]>>
    [] doc = "tagsOnly" -> <<[key |-> <<"n","a","m","e">>, type |-> "ZodString"]>>
    [] doc = "proseOnly" -> <<>>
    [] doc = "mixed" ->
         <<[key |-> <<"x">>, type |-> "ZodBoolean"],
           [key |-> <<"y">>, type |-> "ZodNumber"],
           [key |-> <<"z">>, type |-> "ZodArray"],
           [key |-> <<"w">>, type |-> "ZodString"],
           [key |-> <<"v">>, type |-> "ZodBoolean"]>>
    [] doc = "oneLine" -> <<>>
    [] doc = "empty" -> <<>>
    [] doc = "detached" -> <<>>

\* ------------------------------------------------------------------------
\* Decorator applications over every combination of options, documentation,
\* call stack and decorator form
\* ------------------------------------------------------------------------

ResolveDocs == {"none", "full", "tagsOnly", "proseOnly", "mixed", "oneLine", "empty", "detached"}

ResolveOptions ==
  [name : {undefined, <<>>, S_greet},
   description : {undefined, <<>>, S_greetDescription},
   parameters : {undefinedObj, NumberPairSchema, OptionalFieldSchema, ZodObject(<<>>)}]

\* one class with one decorated method hi, the other class without tools
ResolveClasses ==
  {[c \in Classes |->
      IF c = ClassOrder[1]
      THEN <<[propertyKey |-> S_hi, options |-> o, doc |-> d]>>
      ELSE <<>>] : o \in ResolveOptions, d \in ResolveDocs}

InitResolve ==
  /\ program \in [bindingModel : {"legacy", "standard"},
                  stack : {StackTs, StackDist, StackEsm, StackNone},
                  classes : ResolveClasses]
  /\ InitServer
  /\ NoDoc

NextResolve ==
  \/ DefineClass(ClassOrder[1])
  \/ Construct(ClassOrder[1])

SpecResolve == InitResolve /\ [][NextResolve]_vars

\* the stacks whose first user frame leads to the source file on disk
SourceLocated == program.stack \in {StackTs, StackDist}

\* the decorated methods the program declares
Declarations ==
  UNION {{program.classes[c][i] : i \in 1..Len(program.classes[c])} : c \in Classes}

\* the descriptors in the registry that were resolved from declaration d
DescriptorsOf(d) ==
  {m \in UNION {{toolsMetadata[i].value[j] : j \in 1..Len(toolsMetadata[i].value)} :
                  i \in 1..Len(toolsMetadata)} : m.methodName = d.propertyKey}

\* ------------------------------------------------------------------------
\* A program of two classes with one tool each
\* ------------------------------------------------------------------------

\* class SimpleMcp { @tool hi } and class OtherMap { @tool other }
PairClasses ==
  [c \in Classes |->
     IF c = ClassOrder[1]
     THEN <<[propertyKey |-> S_hi, options |-> NoOptions, doc |-> "oneLine"]>>
     ELSE <<[propertyKey |-> S_other, options |-> NoOptions, doc |-> "proseOnly"]>>]

InitPair ==
  /\ program \in [bindingModel : {"legacy", "standard"},
                  stack : {StackTs},
                  classes : {PairClasses}]
  /\ InitServer
  /\ NoDoc

\* the requests of the pair program: each tool without arguments, other with
\* arguments, and an unknown name
PairRequests ==
  {[name |-> n, hasArguments |-> FALSE, arguments |-> {}, extra |-> {}] :
     n \in {S_hi, S_other, S_nosuch}}
  \cup
  {[name |-> S_other, hasArguments |-> TRUE,
    arguments |-> {Field(K_a, Num(2)), Field(K_b, Num(3))}, extra |-> {}]}

NextPair ==
  \/ \E c \in Classes : DefineClass(c)
  \/ \E c \in Classes : Construct(c)
  \/ \E c \in Classes : \E id \in 1..MaxInstances : Register(c, id)
  \/ \E params \in PairRequests : CallToolRequest(params)
  \/ \E result \in MethodResults : CallToolSettle(result)
  \/ ListTools

SpecPair == InitPair /\ [][NextPair]_vars

\* the tool of each class of the pair program, read from its source
PairToolOf(c) == IF c = ClassOrder[1] THEN S_hi ELSE S_other

\* the elements of a sequence in the order of their first occurrence
RECURSIVE Distinct(_)
Distinct(seq) ==
  IF Len(seq) = 0 THEN <<>>
  ELSE LET front == SubSeq(seq, 1, Len(seq) - 1)
       IN  IF \E i \in 1..Len(front) : front[i] = seq[Len(seq)]
           THEN Distinct(front)
           ELSE Append(Distinct(front), seq[Len(seq)])

\* the classes in the order of their register calls (the first of each class)
RegisterOrder == [i \in 1..Len(instances) |-> instances[i].key]

\* the classes in the order their descriptors entered the registry: as the
\* classes are declared under legacy decorators, as they are first constructed
\* under standard decorators
EntryOrder ==
  IF program.bindingModel = "legacy"
  THEN SelectSeq(ClassOrder, LAMBDA c : c \in defined)
  ELSE Distinct(constructed)

\* the names a listing returned, each once, in the order returned
ListedNames == Distinct([i \in 1..Len(call.tools) |-> call.tools[i].name])

\* ------------------------------------------------------------------------
\* A program of one tool with explicit name and schema
\* ------------------------------------------------------------------------

\* class SimpleMcp { @tool({ name: "add", parameters: z.object({a, b}) }) add }
AddClasses ==
  [c \in Classes |->
     IF c = ClassOrder[1]
     THEN <<[propertyKey |-> S_add,
             options |-> [name |-> S_add, description |-> undefined,
                          parameters |-> NumberPairSchema],
             doc |-> "full"]>>
     ELSE <<>>]

InitAdd ==
  /\ program \in [bindingModel : {"legacy", "standard"},
                  stack : {StackTs},
                  classes : {AddClasses}]
  /\ InitServer
  /\ NoDoc

\* what the method add may do: return a value of any kind or throw
AddResults ==
  {[kind |-> "return", value |-> v] :
     v \in {Num(5), Num(12), Str(S_other), NaNValue, NullValue, UndefinedValue,
            TrueValue, ObjectValue({})}}
  \cup {[kind |-> "throw", message |-> <<"b","o","o","m">>]}

NextAdd ==
  \/ \E c \in Classes : DefineClass(c)
  \/ \E c \in Classes : Construct(c)
  \/ \E c \in Classes : \E id \in 1..MaxInstances : Register(c, id)
  \/ \E params \in Requests : CallToolRequest(params)
  \/ \E result \in AddResults : CallToolSettle(result)
  \/ ListTools

SpecAdd == InitAdd /\ [][NextAdd]_vars

\* ------------------------------------------------------------------------
\* A program of prompts and resources, and a server started on a transport
\* ------------------------------------------------------------------------

\* "review"
S_review == <<"r","e","v","i","e","w">>

\* "Review code"
S_reviewDescription == <<"R","e","v","i","e","w"," ","c","o","d","e">>

\* "hello"
S_hello == <<"h","e","l","l","o">>

\* "language"
K_language == <<"l","a","n","g","u","a","g","e">>

\* "config://app"
U_config == <<"c","o","n","f","i","g",":","/","/","a","p","p">>

\* "file://"
U_filePrefix == <<"f","i","l","e",":","/","/">>

\* "file:///tmp/x.txt"
U_file == <<"f","i","l","e",":","/","/","/","t","m","p","/","x",".","t","x","t">>

\* "doc://readme"
U_readme == <<"d","o","c",":","/","/","r","e","a","d","m","e">>

\* "application/json"
S_json == <<"a","p","p","l","i","c","a","t","i","o","n","/","j","s","o","n">>

\* "websocket"
T_websocket == <<"w","e","b","s","o","c","k","e","t">>

\* one class holds a prompt with an argument schema, a resource matched by a
\* string and a resource matched by a pattern; the other holds a prompt without
\* schema and a resource matched by a string
ServePrompts ==
  [c \in Classes |->
     IF c = ClassOrder[1]
     THEN <<[propertyKey |-> S_review,
             options |-> [name |-> S_review, description |-> S_reviewDescription,
                          arguments |-> ZodObject(<<[key |-> K_language,
                                                     type |-> "ZodString"]>>)]]>>
     ELSE <<[propertyKey |-> S_hello,
             options |-> [name |-> S_hello, description |-> undefined,
                          arguments |-> undefinedObj]]>>]

ServeResources ==
  [c \in Classes |->
     IF c = ClassOrder[1]
     THEN <<[propertyKey |-> <<"g","e","t","C","o","n","f","i","g">>,
             options |-> [uri |-> [kind |-> "string", value |-> U_config],
                          name |-> undefined, description |-> undefined,
                          mimeType |-> undefined]],
            [propertyKey |-> <<"r","e","a","d","F","i","l","e">>,
             options |-> [uri |-> [kind |-> "RegExp", literal |-> U_filePrefix],
                          name |-> undefined, description |-> undefined,
                          mimeType |-> TextPlain]]>>
     ELSE <<[propertyKey |-> <<"r","e","a","d","m","e">>,
             options |-> [uri |-> [kind |-> "string", value |-> U_readme],
                          name |-> undefined, description |-> undefined,
                          mimeType |-> S_json]]>>]

InitPrompts ==
  /\ program \in [bindingModel : {"legacy", "standard"},
                  stack : {StackTs},
                  classes : {[c \in Classes |-> <<>>]},
                  prompts : {ServePrompts},
                  resources : {ServeResources}]
  /\ InitServer
  /\ NoDoc

\* the GetPrompt requests of the model
PromptRequests ==
  {[name |-> S_review, hasArguments |-> FALSE, arguments |-> {}],
   [name |-> S_review, hasArguments |-> TRUE, arguments |-> {}],
   [name |-> S_review, hasArguments |-> TRUE,
    arguments |-> {Field(K_language, Str(S_other))}],
   [name |-> S_hello, hasArguments |-> FALSE, arguments |-> {}],
   [name |-> S_hello, hasArguments |-> TRUE,
    arguments |-> {Field(K_language, Str(S_other))}],
   [name |-> S_nosuch, hasArguments |-> FALSE, arguments |-> {}]}

\* the ReadResource requests of the model
ResourceRequests == {[uri |-> u] : u \in {U_config, U_file, U_filePrefix, U_readme, S_nosuch}}

\* the transport configurations of the model; serve may be called without one
TransportConfigs == {[type |-> t] : t \in {T_stdio, T_sse, T_streamableHttp, T_websocket}}

\* a GetPrompt request arrives and runs up to the await of the bound method
GetPromptRequest(params) ==
  /\ call.phase # "awaiting"
  /\ call' = getPromptBegin(getPromptHandler, params)
  /\ UNCHANGED <<program, defined, constructed, fileLinesCache, lastParsedDoc,
                 toolsMetadata, reflectMetadata, instances, callToolHandler, serveVars,
                 docVars>>

\* the awaited prompt method settles and the handler answers
GetPromptSettle(result) ==
  /\ call.phase = "awaiting"
  /\ call.request = "prompts/get"
  /\ call' = getPromptEnd(call, result)
  /\ UNCHANGED <<program, defined, constructed, fileLinesCache, lastParsedDoc,
                 toolsMetadata, reflectMetadata, instances, callToolHandler, serveVars,
                 docVars>>

\* a ReadResource request arrives and runs up to the await of the bound method
ReadResourceRequest(params) ==
  /\ call.phase # "awaiting"
  /\ call' = readResourceBegin(readResourceHandler, params, regExpLastIndex)
  /\ regExpLastIndex' = lastIndexAfterRead(readResourceHandler, params, regExpLastIndex)
  /\ UNCHANGED <<program, defined, constructed, fileLinesCache, lastParsedDoc,
                 toolsMetadata, reflectMetadata, instances, callToolHandler,
                 promptsMetadata, resourcesMetadata, promptReflect, resourceReflect,
                 getPromptHandler, readResourceHandler, transport, docVars>>

\* the awaited resource method settles and the handler answers
ReadResourceSettle(result) ==
  /\ call.phase = "awaiting"
  /\ call.request = "resources/read"
  /\ call' = readResourceEnd(call, result)
  /\ UNCHANGED <<program, defined, constructed, fileLinesCache, lastParsedDoc,
                 toolsMetadata, reflectMetadata, instances, callToolHandler, serveVars,
                 docVars>>

\* server.createTransport(config) called directly
CreateTransport(config) ==
  LET answer(made) ==
        IF made.ok
        THEN [phase |-> "responded", request |-> "createTransport", config |-> config,
              outcome |-> "return", transport |-> made.transport]
        ELSE [phase |-> "responded", request |-> "createTransport", config |-> config,
              outcome |-> "throw", message |-> made.message]
  IN  /\ call.phase # "awaiting"
      /\ call' = answer(createTransport(config))
      /\ UNCHANGED <<program, defined, constructed, fileLinesCache, lastParsedDoc,
                     toolsMetadata, reflectMetadata, instances, callToolHandler, serveVars,
                     docVars>>

\* server.serve(transportConfig): transportConfig || { type: 'stdio' }, then
\* createTransport and connect; transportConfig is undefinedObj when not given
Serve(transportConfig) ==
  LET config == IF transportConfig = undefinedObj THEN [type |-> T_stdio]
                ELSE transportConfig
      started(made) ==
        IF made.ok
        THEN /\ transport' = made.transport
             /\ call' = [phase |-> "responded", request |-> "serve",
                         config |-> transportConfig, outcome |-> "return",
                         connected |-> made.transport]
        ELSE /\ transport' = transport
             /\ call' = [phase |-> "responded", request |-> "serve",
                         config |-> transportConfig, outcome |-> "throw",
                         message |-> made.message]
  IN  /\ call.phase # "awaiting"
      /\ started(createTransport(config))
      /\ UNCHANGED <<program, defined, constructed, fileLinesCache, lastParsedDoc,
                     toolsMetadata, reflectMetadata, instances, callToolHandler,
                     promptsMetadata, resourcesMetadata, promptReflect, resourceReflect,
                     getPromptHandler, readResourceHandler, regExpLastIndex, docVars>>

\* the server answering prompt and resource requests
NextPrompts ==
  \/ \E c \in Classes : DefineClass(c)
  \/ \E c \in Classes : Construct(c)
  \/ \E c \in Classes : \E id \in 1..MaxInstances : Register(c, id)
  \/ \E params \in PromptRequests : GetPromptRequest(params)
  \/ \E result \in MethodResults : GetPromptSettle(result)
  \/ \E params \in ResourceRequests : ReadResourceRequest(params)
  \/ \E result \in MethodResults : ReadResourceSettle(result)

SpecPrompts == InitPrompts /\ [][NextPrompts]_vars

\* the server being set up and started on a transport
NextServe ==
  \/ \E c \in Classes : DefineClass(c)
  \/ \E c \in Classes : Construct(c)
  \/ \E c \in Classes : \E id \in 1..MaxInstances : Register(c, id)
  \/ \E config \in TransportConfigs : CreateTransport(config)
  \/ \E config \in TransportConfigs \cup {undefinedObj} : Serve(config)

SpecServe == InitPrompts /\ [][NextServe]_vars

\* ------------------------------------------------------------------------
\* The documentation functions applied to lines of every kind
\* ------------------------------------------------------------------------

\* the longest sequence of lines handed to a documentation function
MaxDocLines == 4

\* the kinds of line that may stand above a decorator
AboveKinds == {"blank", "block", "open", "text", "close", "slashes", "code", "plain"}

\* the line of each kind as written in a source file
AboveLine(kind) ==
  CASE kind = "blank"   -> <<>>
    [] kind = "block"   -> <<" "," ","/","*","*"," ","D","o","c","."," ","*","/">>
    [] kind = "open"    -> <<" "," ","/","*","*">>
    [] kind = "text"    -> <<" "," "," ","*"," ","A","d","d","s",".">>
    [] kind = "close"   -> <<" "," "," ","*","/">>
    [] kind = "slashes" -> <<" "," ","/","/"," ","n","o","t","e">>
    [] kind = "code"    -> <<" "," ","o","t","h","e","r","(",")"," ","{","}">>
    [] kind = "plain"   -> <<" "," ","/","*"," ","e","s","l","i","n","t","-","d","i","s","a","b","l","e"," ","*","/">>

\* the line of the decorator
DecoratorLine == <<" "," ","@","t","o","o","l">>

\* the kinds of line that may stand inside a documentation block
InsideKinds == {"prose", "more", "param", "returns", "tag", "star"}

\* the line of each kind as written inside a block
InsideLine(kind) ==
  CASE kind = "prose"   -> <<" ","*"," ","A","d","d","s"," ","n","u","m","b","e","r","s",".">>
    [] kind = "more"    -> <<" ","*"," ","c","o","n","t","i","n","u","e","d"," ","t","e","x","t">>
    [] kind = "param"   -> <<" ","*"," ","@","p","a","r","a","m"," ","a"," ","F","i","r","s","t">>
    [] kind = "returns" -> <<" ","*"," ","@","r","e","t","u","r","n","s"," ","s","u","m">>
    [] kind = "tag"     -> <<" ","*"," ","@","d","e","p","r","e","c","a","t","e","d">>
    [] kind = "star"    -> <<" ","*">>

\* the sequences of at most MaxDocLines kinds
KindSeqs(kinds) == UNION {[1..n -> kinds] : n \in 0..MaxDocLines}

\* the file above the decorator, and the decorator
AboveLines(kinds) == [i \in 1..Len(kinds) |-> AboveLine(kinds[i])] \o <<DecoratorLine>>

\* the raw text of a block with the lines of these kinds inside
BlockText(kinds) ==
  join(<<<<"/","*","*">>>> \o [i \in 1..Len(kinds) |-> InsideLine(kinds[i])] \o <<<<" ","*","/">>>>,
       <<"\n">>)

InitDoc ==
  /\ program = [bindingModel |-> "legacy", stack |-> StackNone,
                classes |-> [c \in Classes |-> <<>>]]
  /\ InitServer
  /\ docInput \in {[fn |-> "extractDocCommentAbove", kinds |-> k] : k \in KindSeqs(AboveKinds)}
                  \cup {[fn |-> "parseRawDocComment", kinds |-> k] : k \in KindSeqs(InsideKinds)}
  /\ docOutput = undefinedObj

\* extractDocCommentAbove(lines, decoratorLine) is called on the input
ExtractDoc ==
  /\ docInput.fn = "extractDocCommentAbove"
  /\ docOutput = undefinedObj
  /\ docOutput' = [returned |-> extractDocCommentAbove(AboveLines(docInput.kinds),
                                                       Len(docInput.kinds) + 1)]
  /\ UNCHANGED <<program, defined, constructed, fileLinesCache, lastParsedDoc,
                 toolsMetadata, reflectMetadata, instances, callToolHandler, call,
                 serveVars, docInput>>

\* parseRawDocComment(raw) is called on the input
ParseDoc ==
  /\ docInput.fn = "parseRawDocComment"
  /\ docOutput = undefinedObj
  /\ docOutput' = [returned |-> parseRawDocComment(BlockText(docInput.kinds))]
  /\ UNCHANGED <<program, defined, constructed, fileLinesCache, lastParsedDoc,
                 toolsMetadata, reflectMetadata, instances, callToolHandler, call,
                 serveVars, docInput>>

NextDoc == ExtractDoc \/ ParseDoc

SpecDoc == InitDoc /\ [][NextDoc]_vars

\* ------------------------------------------------------------------------
\* Properties
\* ------------------------------------------------------------------------

\* the classes that have an instance bound by register
BoundClasses == {instances[i].key : i \in 1..Len(instances)}

\* the descriptors of the registry of class c
DescriptorsOfClass(c) == {mapGet(toolsMetadata, c)[j] : j \in 1..Len(mapGet(toolsMetadata, c))}

\* the descriptors of the tools that register has bound
RegisteredTools == UNION {DescriptorsOfClass(c) : c \in BoundClasses}

\* the names of all descriptors of the registry
RegistryNames == {m.name : m \in UNION {DescriptorsOfClass(c) : c \in Classes}}

\* C1: a call naming any tool that register has bound never fails with
\* not-found, however many tools were registered after it
C1_RegisteredToolsStayInvocable ==
  (call.phase = "responded" /\ \E m \in RegisteredTools : m.name = call.params.name)
    => call.outcome # "throw"

\* C2: under both decorator forms and whatever the documentation holds, an
\* explicit description, the empty string included, is the description of every
\* descriptor resolved from the declaration
C2_ExplicitDescriptionKept ==
  \A d \in Declarations :
    d.options.description # undefined =>
      \A m \in DescriptorsOf(d) : m.description = d.options.description

\* an explicit empty description kept although the block parsed has prose
C2_Witness ==
  \E d \in Declarations :
    /\ d.options.description = <<>>
    /\ lastParsedDoc.logged
    /\ DocSummary(d.doc) # undefined
    /\ lastParsedDoc.parsed.description = DocSummary(d.doc)
    /\ \E m \in DescriptorsOf(d) : m.description = <<>>

\* C3: the resolved name is the explicit name verbatim whenever one is given,
\* the empty string included, and the method's own name otherwise
C3_ExplicitNameVerbatim ==
  \A d \in Declarations :
    \A m \in DescriptorsOf(d) :
      m.name = IF d.options.name # undefined THEN d.options.name ELSE d.propertyKey

\* C4: without an explicit description and without prose to infer one from the
\* description is the empty string; without an explicit schema and without
\* @param entries to infer one from the schema accepts anything
C4_Defaults ==
  \A d \in Declarations :
    \A m \in DescriptorsOf(d) :
      /\ (d.options.description = undefined
            /\ (~SourceLocated \/ DocSummary(d.doc) = undefined))
           => m.description = <<>>
      /\ (d.options.parameters = undefinedObj
            /\ (~SourceLocated \/ DocFields(d.doc) = <<>>))
           => m.parameters = ZodAny

\* the source is found, and the only block above the method belongs to a field
C4_Witness ==
  \E d \in Declarations :
    /\ d.doc = "detached"
    /\ d.options = NoOptions
    /\ SourceLocated
    /\ fileLinesCache # {}
    /\ \E m \in DescriptorsOf(d) : m.description = <<>> /\ m.parameters = ZodAny

\* C5: every @param entry yields one required field whose type follows the
\* keywords of its description: number first, then boolean/true/false, then
\* array/list/items, otherwise string
C5_InferredFields ==
  \A d \in Declarations :
    (d.options.parameters = undefinedObj /\ SourceLocated /\ DocFields(d.doc) # <<>>) =>
      \A m \in DescriptorsOf(d) :
        /\ m.parameters = ZodObject(DocFields(d.doc))
        /\ zodToJsonSchema(m.parameters).required =
             [kind |-> "array",
              items |-> [i \in 1..Len(DocFields(d.doc)) |-> DocFields(d.doc)[i].key]]

\* a schema inferred from descriptions that carry keywords of several kinds
C5_Witness ==
  \E d \in Declarations :
    /\ d.doc = "mixed"
    /\ \E m \in DescriptorsOf(d) :
         /\ m.parameters.kind = "ZodObject"
         /\ Len(m.parameters.shape) = 5
         /\ m.parameters.shape[1].type = "ZodBoolean"
         /\ m.parameters.shape[2].type = "ZodNumber"

\* C6: a block of tags without prose parses to an absent description, and the
\* tool resolved from it without an explicit description has description "",
\* as has a tool with an explicit empty description
C6_TagsOnlyBlock ==
  \A d \in Declarations :
    d.doc = "tagsOnly" =>
      /\ lastParsedDoc.logged => lastParsedDoc.parsed.description = undefined
      /\ d.options.description \in {undefined, <<>>} =>
           \A m \in DescriptorsOf(d) : m.description = <<>>

\* a tags-only block was parsed for a tool without an explicit description
C6_Witness ==
  \E d \in Declarations :
    /\ d.doc = "tagsOnly"
    /\ d.options.description = undefined
    /\ lastParsedDoc.logged
    /\ lastParsedDoc.parsed.params # undefinedObj
    /\ \E m \in DescriptorsOf(d) : m.description = <<>>

\* C7: a call naming a tool that register has bound, with a payload the tool's
\* schema rejects, is answered by an error-flagged response that carries the
\* failure's message, never by a raised error
C7_FailuresAreErrorResponses ==
  (/\ call.phase = "responded"
   /\ \E m \in RegisteredTools :
        /\ m.name = call.params.name
        /\ ~parseToolArgs(m.parameters, resolveRawArgs(call.params)).ok)
    => /\ call.outcome = "response"
       /\ call.isError
       /\ call.text = ToolErrorText(ZodErrorMessage)

\* C8: a call whose name matches no descriptor of the registry fails with a
\* raised not-found error, never with an error-flagged response
C8_UnknownNameRaises ==
  (call.phase = "responded" /\ call.params.name \notin RegistryNames) =>
    /\ call.outcome = "throw"
    /\ callToolHandler.installed => call.message = ToolNotFoundMessage(call.params.name)

\* the installed handler was asked for a name no descriptor carries
C8_Witness ==
  /\ callToolHandler.installed
  /\ call.phase = "responded"
  /\ call.params.name = S_nosuch
  /\ call.params.name \notin RegistryNames
  /\ call.outcome = "throw"

\* C9: the method is invoked with the arguments field when it is present and
\* not empty, else with the remaining top-level fields without the name, else
\* with the empty object
C9_PayloadAsClaimed ==
  call.phase = "awaiting" =>
    LET payload == IF call.params.hasArguments /\ call.params.arguments # {}
                   THEN call.params.arguments
                   ELSE call.params.extra
    IN  /\ parseToolArgs(call.toolMeta.parameters, payload).ok
        /\ call.parsedArgs = parseToolArgs(call.toolMeta.parameters, payload).value

\* C10 as stated: with an instance of each of the two classes registered, the
\* listing returns both tools in the order of the register calls
C10_ListedInRegisterOrder ==
  (call.phase = "listed" /\ Len(instances) = 2) =>
    ListedNames = [i \in 1..2 |-> PairToolOf(RegisterOrder[i])]

\* C10: with an instance of each of the two classes registered, the listing
\* returns both tools in the order in which the classes' descriptors entered
\* the registry, whatever the order of the register calls
C10_ListedInEntryOrder ==
  (call.phase = "listed" /\ Len(instances) = 2) =>
    /\ Len(EntryOrder) = 2
    /\ ListedNames = [i \in 1..2 |-> PairToolOf(EntryOrder[i])]

\* a listing after the class declared second was registered first
C10_Witness ==
  /\ call.phase = "listed"
  /\ Len(instances) = 2
  /\ RegisterOrder = <<ClassOrder[2], ClassOrder[1]>>
  /\ ListedNames = <<S_hi, S_other>>

\* C11: whenever the method of a prompt runs, its argument is the request's
\* arguments validated against the prompt's schema when the prompt has one
\* (an absent arguments field is validated like an empty one) and the empty
\* object when it has none; and a validation failure raises an error naming
\* the prompt.
C11_PromptArgumentsValidated ==
  /\ (call.phase = "awaiting" /\ call.request = "prompts/get") =>
       IF call.promptMeta.arguments # undefinedObj
       THEN /\ zodObjectParse(call.promptMeta.arguments.shape, call.params.arguments).ok
            /\ call.parsedArgs =
                 zodObjectParse(call.promptMeta.arguments.shape, call.params.arguments).value
       ELSE call.parsedArgs = {}
  /\ (/\ call.phase = "responded"
      /\ call.request = "prompts/get"
      /\ getPromptHandler.installed
      /\ call.params.name = getPromptHandler.promptMeta.name
      /\ ~call.invoked) =>
       /\ call.outcome = "throw"
       /\ call.message = PromptErrorMessage(call.params.name, ZodErrorMessage)

\* the resource descriptors of the classes an instance of which is bound
RegisteredResources ==
  UNION {{mapGet(resourcesMetadata, c)[i] : i \in 1..Len(mapGet(resourcesMetadata, c))} :
           c \in BoundClasses}

\* C12: a read request for a URI that the matcher of some registered resource
\* accepts invokes the method of such a resource with exactly {uri}, and the
\* response carries the URI and the descriptor's mime type (text/plain when
\* none was given); a URI that no registered matcher accepts raises an error.
C12_ReadAnsweredWhenMatched ==
  (call.phase \in {"awaiting", "responded"} /\ call.request = "resources/read") =>
    IF \E r \in RegisteredResources : uriMatches(r.uri, call.params.uri, 0)
    THEN /\ call.phase = "responded" => call.invoked
         /\ call.resourceMeta \in RegisteredResources
         /\ uriMatches(call.resourceMeta.uri, call.params.uri, 0)
         /\ call.methodArgs = [uri |-> call.params.uri]
         /\ (call.phase = "responded" /\ call.outcome = "response") =>
              /\ call.uri = call.params.uri
              /\ call.mimeType = IF truthy(call.resourceMeta.mimeType)
                                 THEN call.resourceMeta.mimeType ELSE TextPlain
    ELSE /\ call.phase = "responded"
         /\ call.outcome = "throw"
         /\ ~call.invoked

\* C13: once a class is defined and, under standard decorators, constructed at
\* least once, the registry holds exactly one descriptor for each decorated
\* method of the class, however many instances have been constructed.
C13_OneDescriptorPerMethod ==
  \A c \in defined :
    (program.bindingModel = "legacy" \/ instancesOf(c) >= 1) =>
      \A d \in 1..Len(program.classes[c]) :
        Cardinality({j \in 1..Len(mapGet(toolsMetadata, c)) :
                       mapGet(toolsMetadata, c)[j].methodName =
                         program.classes[c][d].propertyKey}) = 1

\* C14: a register step that binds another instance of a class already bound
\* leaves the server with that one instance recorded for the class and with
\* every tool of the class dispatched to it: a request naming any tool of the
\* class is not answered 'not found', and when it reaches the method it runs on
\* the instance just registered.
C14_SecondInstanceTakesOver ==
  [][\A c \in Classes :
       (/\ mapHas(instances, c)
        /\ mapHas(instances', c)
        /\ mapGet(instances', c) # mapGet(instances, c)) =>
         /\ Cardinality({i \in 1..Len(instances') : instances'[i].key = c}) = 1
         /\ \A j \in 1..Len(mapGet(toolsMetadata', c)) :
              LET answer(r) == IF r.phase = "awaiting"
                               THEN r.instance = mapGet(instances', c)
                               ELSE r.outcome # "throw"
              IN  answer(callToolBegin(callToolHandler',
                                       [name |-> mapGet(toolsMetadata', c)[j].name,
                                        hasArguments |-> FALSE, arguments |-> {},
                                        extra |-> {}]))]_vars

\* the inference for declaration d finds nothing: the source file is not found
\* from the call stack, or no documentation block is attached to the method, or
\* the block attached holds neither prose nor tags
InferenceFails(d) == ~SourceLocated \/ d.doc \in {"none", "empty", "detached"}

C16_UnsupportedTransportRejected ==
  (call.phase = "responded" /\ call.request \in {"createTransport", "serve"}) =>
    /\ (/\ call.config # undefinedObj
        /\ call.config.type \notin {<<"s","t","d","i","o">>, <<"s","s","e">>, <<"s","t","r","e","a","m","a","b","l","e","H","t","t","p">>}) =>
         /\ call.outcome = "throw"
         /\ startsWith(call.message, <<"U","n","s","u","p","p","o","r","t","e","d"," ","t","r","a","n","s","p","o","r","t"," ","t","y","p","e">>)
    /\ (call.request = "serve" /\ call.config = undefinedObj) =>
         /\ call.outcome = "return"
         /\ call.connected = [kind |-> "StdioServerTransport"]
         /\ transport = call.connected

\* serve was called with a configuration of type websocket
C16_Witness ==
  /\ call.phase = "responded"
  /\ call.request = "serve"
  /\ call.config = [type |-> T_websocket]
  /\ call.outcome = "throw"

\* the text a reader expects for each value a method of the model returns
ExpectedText(v) ==
  CASE v = Num(5)            -> <<"5">>
    [] v = Num(12)           -> <<"1","2">>
    [] v = Str(S_other)      -> <<"o","t","h","e","r">>
    [] v = NaNValue          -> <<"N","a","N">>
    [] v = NullValue         -> <<"n","u","l","l">>
    [] v = UndefinedValue    -> <<"u","n","d","e","f","i","n","e","d">>
    [] v = TrueValue         -> <<"t","r","u","e">>
    [] v = ObjectValue({})   -> <<"{","}">>

\* C17: when the method of a tool was invoked with arguments its schema accepts
\* and returned, the response is not flagged as an error and its text is the
\* string returned, the decimal digits of the number returned ("NaN" for
\* not-a-number), "null", "undefined", or the JSON text of any other value.
C17_ResultText ==
  (/\ call.phase = "responded"
   /\ call.outcome = "response"
   /\ call.invoked
   /\ call.result.kind = "return") =>
    /\ parseToolArgs(call.toolMeta.parameters, call.parsedArgs).ok
    /\ ~call.isError
    /\ call.text = ExpectedText(call.result.value)

\* add, with explicit schema {a: number, b: number}, was called with
\* {a: 2, b: 3} and returned 5
C17_Witness ==
  /\ call.phase = "responded"
  /\ call.params.name = S_add
  /\ call.params.arguments = {Field(K_a, Num(2)), Field(K_b, Num(3))}
  /\ call.outcome = "response"
  /\ call.invoked
  /\ call.toolMeta.parameters = NumberPairSchema
  /\ call.result = [kind |-> "return", value |-> Num(5)]
  /\ call.text = <<"5">>

\* the prose a reader sees on a line inside a block, by its kind
ProseOf(kind) ==
  CASE kind = "prose" -> <<"A","d","d","s"," ","n","u","m","b","e","r","s",".">>
    [] kind = "more"  -> <<"c","o","n","t","i","n","u","e","d"," ","t","e","x","t">>
    [] OTHER          -> <<>>

\* the prose lines that stand before the first @-tagged line, in order
RECURSIVE ProseBeforeTags(_)
ProseBeforeTags(kinds) ==
  IF Len(kinds) = 0 \/ Head(kinds) \in {"param", "returns", "tag"} THEN <<>>
  ELSE (IF Head(kinds) \in {"prose", "more"} THEN <<ProseOf(Head(kinds))>> ELSE <<>>)
       \o ProseBeforeTags(Tail(kinds))

\* C18: the description parsed from a block is the prose lines that stand
\* before its first @-tagged line, joined by single spaces, and absent when
\* there is none; prose after an @-tagged line is no part of it.
C18_DescriptionBeforeTags ==
  (docInput.fn = "parseRawDocComment" /\ docOutput # undefinedObj) =>
    docOutput.returned.description =
      IF ProseBeforeTags(docInput.kinds) = <<>> THEN undefined
      ELSE join(ProseBeforeTags(docInput.kinds), <<" ">>)

\* the kinds of line a reader takes for blank or comment lines that end no
\* block, for lines that end a block, and the line the scan stops at: the
\* nearest line above the decorator that is not of the first sort (0 if none)
SkippedKinds == {"blank", "slashes", "text", "open"}

TerminatorKinds == {"close", "block", "plain"}

StopLine(kinds) == SetMax({0} \cup {i \in 1..Len(kinds) : kinds[i] \notin SkippedKinds})

\* C19: the scan passes over blank and comment lines only.  When the nearest
\* other line above the decorator is code, or there is none, the result is
\* absent; a result that is not absent is a span of lines that ends with that
\* nearest line, which ends a block; and a one-line block separated from the
\* decorator by blank and comment lines only is returned.
C19_ScanStopsAtCode ==
  (docInput.fn = "extractDocCommentAbove" /\ docOutput # undefinedObj) =>
    LET holds(kinds, e, returned) ==
          /\ (e = 0 \/ kinds[e] = "code") => returned = undefined
          /\ returned # undefined =>
               /\ e # 0
               /\ kinds[e] \in TerminatorKinds
               /\ \E s \in 1..e :
                    returned = join([i \in 1..(e - s + 1) |-> AboveLine(kinds[s + i - 1])],
                                    <<"\n">>)
          /\ (e # 0 /\ kinds[e] = "block") => returned = AboveLine("block")
    IN  holds(docInput.kinds, StopLine(docInput.kinds), docOutput.returned)

\* a block, then a line of code, then a blank line above the decorator: absent
C19_Witness ==
  /\ docInput.fn = "extractDocCommentAbove"
  /\ docInput.kinds = <<"block", "code", "blank">>
  /\ docOutput # undefinedObj
  /\ docOutput.returned = undefined

\* the lines form whole comments: every block opened is closed before the next
\* comment or line of code, and continuation and closing lines stand inside a
\* block only
RECURSIVE WellFormedFrom(_, _)
WellFormedFrom(kinds, inside) ==
  IF Len(kinds) = 0 THEN ~inside
  ELSE CASE Head(kinds) = "open"  -> ~inside /\ WellFormedFrom(Tail(kinds), TRUE)
         [] Head(kinds) = "text"  -> inside /\ WellFormedFrom(Tail(kinds), TRUE)
         [] Head(kinds) = "close" -> inside /\ WellFormedFrom(Tail(kinds), FALSE)
         [] Head(kinds) = "blank" -> WellFormedFrom(Tail(kinds), inside)
         [] OTHER                 -> ~inside /\ WellFormedFrom(Tail(kinds), FALSE)

\* the line that holds the open token of the comment that line e closes: the
\* line itself for a one-line comment, else the nearest opening line above
MatchingOpen(kinds, e) ==
  IF kinds[e] \in {"block", "plain"} THEN e
  ELSE SetMax({s \in 1..e : kinds[s] = "open"})

\* C20: in a file of whole comments, when the scan stops at a line that closes
\* a comment, the result is the text of that comment, from the line of its open
\* token through the closing line, or absent; and it is not absent when the
\* comment is a documentation block.
C20_ReturnsOneBlock ==
  (/\ docInput.fn = "extractDocCommentAbove"
   /\ docOutput # undefinedObj
   /\ WellFormedFrom(docInput.kinds, FALSE)
   /\ StopLine(docInput.kinds) # 0
   /\ docInput.kinds[StopLine(docInput.kinds)] \in TerminatorKinds) =>
    LET holds(kinds, e, s, returned) ==
          /\ returned \in
               {undefined,
                join([i \in 1..(e - s + 1) |-> AboveLine(kinds[s + i - 1])], <<"\n">>)}
          /\ kinds[e] # "plain" => returned # undefined
        of(kinds, e) == holds(kinds, e, MatchingOpen(kinds, e), docOutput.returned)
    IN  of(docInput.kinds, StopLine(docInput.kinds))

\* ---------------------------------------------------------------------------
\* The locator of the decorator line applied to files of every layout
\* ---------------------------------------------------------------------------

\* the largest number of lines above the decorator of add
MaxLocateLines == 4

\* the kinds of line that may stand above the decorator of add
LocateKinds == {"blank", "block", "tool", "other", "call", "close", "field"}

\* the line of each kind as written in a source file
LocateLine(kind) ==
  CASE kind = "blank" -> <<>>
    [] kind = "block" -> <<" "," ","/","*","*"," ","D","o","c"," ","o","f"," ","o","t","h","e","r","."," ","*","/">>
    [] kind = "tool"  -> <<" "," ","@","t","o","o","l","(",")">>
    [] kind = "other" -> <<" "," ","o","t","h","e","r","(",")"," ","{">>
    [] kind = "call"  -> <<" "," "," "," ","r","e","t","u","r","n"," ","t","h","i","s",".","a","d","d","(","1",","," ","2",")",";">>
    [] kind = "close" -> <<" "," ","}">>
    [] kind = "field" -> <<" "," ","c","o","u","n","t"," ","="," ","0",";">>

\* the file: the lines above, then the decorator of add and the definition of add
LocateLines(kinds) ==
  [i \in 1..Len(kinds) |-> LocateLine(kinds[i])] \o << <<" "," ","@","t","o","o","l","(",")">>, <<" "," ","a","d","d","(","a",","," ","b",")"," ","{">> >>

\* the line of the decorator of add and the line that defines add (1-based)
OwnDecoratorIndex(kinds) == Len(kinds) + 1
OwnMethodIndex(kinds) == Len(kinds) + 2

\* a statement line stands inside the body of a method
InsideBodies(kinds) ==
  \A i \in 1..Len(kinds) :
    kinds[i] = "call" => (i > 1 /\ kinds[i - 1] \in {"other", "call"})

InitLocate ==
  /\ program = [bindingModel |-> "legacy", stack |-> StackNone,
                classes |-> [c \in Classes |-> <<>>]]
  /\ InitServer
  /\ docInput \in {[fn |-> "locate", kinds |-> k] :
                     k \in {f \in UNION {[1..n -> LocateKinds] : n \in 0..MaxLocateLines} :
                              InsideBodies(f)}}
  /\ docOutput = undefinedObj

\* the scan of applyLegacy for the method add: the method line, the decorator
\* line above it, and the block above the decorator
Locate ==
  /\ docInput.fn = "locate"
  /\ docOutput = undefinedObj
  /\ LET lines == LocateLines(docInput.kinds)
         found(methodLineIndex, decoratorIndex) ==
           [methodLineIndex |-> methodLineIndex, decoratorIndex |-> decoratorIndex,
            docRaw |-> IF decoratorIndex >= 1
                       THEN extractDocCommentAbove(lines, decoratorIndex)
                       ELSE undefined]
         scan(methodLineIndex) ==
           found(methodLineIndex, decoratorIndexOf(lines, methodLineIndex))
     IN  docOutput' = scan(methodLineIndexOf(lines, S_add))
  /\ UNCHANGED <<program, defined, constructed, fileLinesCache, lastParsedDoc,
                 toolsMetadata, reflectMetadata, instances, callToolHandler, call,
                 serveVars, docInput>>

NextLocate == Locate

SpecLocate == InitLocate /\ [][NextLocate]_vars

\* C21: the decorator line located for a decorated method is the method's own:
\* the scan finds the line that defines the method and the nearest decorator
\* line above it, so the block of another method is never attributed to it
C21_LocatedLineIsOwn ==
  (docInput # undefinedObj /\ docInput.fn = "locate" /\ docOutput # undefinedObj) =>
    /\ docOutput.methodLineIndex = OwnMethodIndex(docInput.kinds)
    /\ docOutput.decoratorIndex \in {0, OwnDecoratorIndex(docInput.kinds)}

\* the descriptor that the immediate binding model resolves for declaration d
\* of class c
ImmediateDescriptor(c, d) ==
  applyLegacy(c, d.propertyKey, d.options, program.stack, Disk, {}).metadata

RECURSIVE escapeSlashes(_)
escapeSlashes(s) ==
  IF Len(s) = 0 THEN <<>>
  ELSE (IF Head(s) = "/" THEN <<"\\", "/">> ELSE <<Head(s)>>) \o escapeSlashes(Tail(s))

\* RegExp.prototype.source of /^literal(.+)$/
regExpSource(re) == <<"^">> \o escapeSlashes(re.literal) \o <<"(", ".", "+", ")", "$">>

\* the ListPrompts handler: every descriptor of the registry, class by class
listPromptsHandler(map) ==
  flatten([i \in 1..Len(map) |->
             [j \in 1..Len(map[i].value) |->
                [name        |-> map[i].value[j].name,
                 description |-> IF truthy(map[i].value[j].description)
                                 THEN map[i].value[j].description ELSE <<>>,
                 arguments   |-> IF map[i].value[j].arguments # undefinedObj
                                 THEN zodToJsonSchema(map[i].value[j].arguments)
                                 ELSE undefinedObj]]])

\* the ListResources handler: every descriptor of the registry, class by class
listResourcesHandler(map) ==
  flatten([i \in 1..Len(map) |->
             [j \in 1..Len(map[i].value) |->
                [uri         |-> IF map[i].value[j].uri.kind = "string"
                                 THEN map[i].value[j].uri.value
                                 ELSE regExpSource(map[i].value[j].uri),
                 name        |-> map[i].value[j].name,
                 description |-> map[i].value[j].description,
                 mimeType    |-> map[i].value[j].mimeType]]])

\* a ListPrompts request
ListPrompts ==
  /\ call.phase # "awaiting"
  /\ call' = [phase |-> "listed", request |-> "prompts/list",
              prompts |-> listPromptsHandler(promptsMetadata)]
  /\ UNCHANGED <<program, defined, constructed, fileLinesCache, lastParsedDoc,
                 toolsMetadata, reflectMetadata, instances, callToolHandler, serveVars,
                 docVars>>

\* a ListResources request
ListResources ==
  /\ call.phase # "awaiting"
  /\ call' = [phase |-> "listed", request |-> "resources/list",
              resources |-> listResourcesHandler(resourcesMetadata)]
  /\ UNCHANGED <<program, defined, constructed, fileLinesCache, lastParsedDoc,
                 toolsMetadata, reflectMetadata, instances, callToolHandler, serveVars,
                 docVars>>

\* the resources of the whole program: a pattern with a declared mime type and
\* a string without one in the first class, a string with one in the second
WholeResources ==
  [c \in Classes |->
     IF c = ClassOrder[1]
     THEN <<[propertyKey |-> <<"r","e","a","d","F","i","l","e">>,
             options |-> [uri |-> [kind |-> "RegExp", literal |-> U_filePrefix],
                          name |-> undefined, description |-> undefined,
                          mimeType |-> TextPlain]],
            [propertyKey |-> <<"g","e","t","C","o","n","f","i","g">>,
             options |-> [uri |-> [kind |-> "string", value |-> U_config],
                          name |-> undefined, description |-> undefined,
                          mimeType |-> undefined]]>>
     ELSE <<[propertyKey |-> <<"r","e","a","d","m","e">>,
             options |-> [uri |-> [kind |-> "string", value |-> U_readme],
                          name |-> undefined, description |-> undefined,
                          mimeType |-> S_json]]>>]

InitWhole ==
  /\ program \in [bindingModel : {"legacy", "standard"},
                  stack : {StackTs},
                  classes : {PairClasses},
                  prompts : {ServePrompts},
                  resources : {WholeResources}]
  /\ InitServer
  /\ NoDoc

\* the requests of the whole program: one tool call, one prompt, the resources
WholeToolRequests ==
  {[name |-> n, hasArguments |-> FALSE, arguments |-> {}, extra |-> {}] :
     n \in {S_hi, S_other}}

WholePromptRequests == {[name |-> S_hello, hasArguments |-> FALSE, arguments |-> {}]}

WholeResourceRequests == {[uri |-> u] : u \in {U_config, U_file, U_readme}}

\* what a bound method of the whole program may do
WholeResults ==
  {[kind |-> "return", value |-> Str(S_other)],
   [kind |-> "throw", message |-> <<"b","o","o","m">>]}

\* the method awaited is a tool method
ToolAwaited == call.phase = "awaiting" /\ "toolMeta" \in DOMAIN call

NextWhole ==
  \/ \E c \in Classes : DefineClass(c)
  \/ \E c \in Classes : Construct(c)
  \/ \E c \in Classes : \E id \in 1..MaxInstances : Register(c, id)
  \/ \E params \in WholeToolRequests : CallToolRequest(params)
  \/ \E result \in WholeResults : ToolAwaited /\ CallToolSettle(result)
  \/ \E params \in WholePromptRequests : GetPromptRequest(params)
  \/ \E result \in WholeResults : ~ToolAwaited /\ GetPromptSettle(result)
  \/ \E params \in WholeResourceRequests : ReadResourceRequest(params)
  \/ \E result \in WholeResults : ~ToolAwaited /\ ReadResourceSettle(result)
  \/ ListTools
  \/ ListPrompts
  \/ ListResources

SpecWhole == InitWhole /\ [][NextWhole]_vars

\* s is an initial part of t
IsPrefix(s, t) == Len(s) <= Len(t) /\ \A i \in 1..Len(s) : s[i] = t[i]

\* every class of the old registry keeps its place and its descriptors, in order
AppendsOnly(old, new) ==
  /\ Len(old) <= Len(new)
  /\ \A i \in 1..Len(old) :
       new[i].key = old[i].key /\ IsPrefix(old[i].value, new[i].value)

\* the step applies annotations: a class is defined or an instance constructed
AppliesAnnotations == defined' # defined \/ constructed' # constructed

\* the step applies the tool decorators of class c
AppliesToolsOf(c) ==
  IF program.bindingModel = "legacy"
  THEN c \notin defined /\ c \in defined'
  ELSE constructed' = Append(constructed, c)

\* C23: register, listing and invocation leave the three registries unchanged;
\* a registry changes only when annotations are applied, and then descriptors
\* are appended at the end of the sequence of their class, one for every
\* decorator applied, whether or not the method already has a descriptor
C23_RegistriesAppendOnly ==
  [][/\ ~AppliesAnnotations =>
          /\ toolsMetadata' = toolsMetadata
          /\ promptsMetadata' = promptsMetadata
          /\ resourcesMetadata' = resourcesMetadata
     /\ AppendsOnly(toolsMetadata, toolsMetadata')
     /\ AppendsOnly(promptsMetadata, promptsMetadata')
     /\ AppendsOnly(resourcesMetadata, resourcesMetadata')
     /\ \A c \in Classes :
          AppliesToolsOf(c) =>
            Len(mapGet(toolsMetadata', c))
              = Len(mapGet(toolsMetadata, c)) + Len(program.classes[c])]_vars

\* after a registration, an invocation answered and a second construction in
\* the deferred model the registry holds both descriptors of the method
C23_Witness ==
  /\ program.bindingModel = "standard"
  /\ Len(instances) >= 1
  /\ call.phase = "responded" /\ "invoked" \in DOMAIN call /\ call.invoked
  /\ \E c \in Classes :
       /\ instancesOf(c) = 2
       /\ Len(mapGet(toolsMetadata, c)) = 2 * Len(program.classes[c])
       /\ Len(program.classes[c]) >= 1
  /\ Len(promptsMetadata) >= 1
  /\ Len(resourcesMetadata) >= 1

\* the step is a call of register: it binds an instance or installs a handler
RegisterStep == instances' # instances \/ callToolHandler' # callToolHandler

\* C24: a register called while a tool invocation is suspended at the await of
\* its method leaves the invocation as it is, and the invocation completes with
\* the descriptor and the instance it was dispatched with; a request that
\* arrives later is dispatched by the handler then installed
C24_SuspendedInvocationKeepsDispatch ==
  [][/\ (call.phase = "awaiting" /\ RegisterStep) => call' = call
     /\ (call.phase = "awaiting" /\ call'.phase = "responded") =>
          /\ call'.invoked
          /\ call'.params = call.params
          /\ call'.toolMeta = call.toolMeta
          /\ call'.instance = call.instance
          /\ call'.parsedArgs = call.parsedArgs
          /\ call'.text = IF call'.result.kind = "return"
                          THEN resultText(call'.result.value)
                          ELSE ToolErrorText(call'.result.message)
     /\ (call.phase # "awaiting" /\ call'.phase = "awaiting") =>
          /\ call'.toolMeta = callToolHandler.toolMeta
          /\ call'.instance = callToolHandler.instance]_vars

\* an invocation answered after register has installed the handler of another
\* tool while it was suspended
C24_Witness ==
  /\ call.phase = "responded"
  /\ "invoked" \in DOMAIN call /\ call.invoked
  /\ callToolHandler.installed
  /\ call.toolMeta.name # callToolHandler.toolMeta.name
  /\ call.instance # callToolHandler.instance

\* ---------------------------------------------------------------------------
\* The cache of source lines under sequences of lookups
\* ---------------------------------------------------------------------------

\* the most lookups in a run
MaxLookups == 4

\* "/app/src//simple-demo.ts": the source file written with a doubled separator
P_sourceTsDoubled == <<"/","a","p","p","/","s","r","c","/","/","s","i","m","p","l","e","-","d","e","m","o",".","t","s">>

\* the paths looked up: the source file in two spellings, and a file that is
\* not on the disk
LookupPaths == {P_sourceTs, P_sourceTsDoubled, P_sourceJs}

InitCache ==
  /\ program = [bindingModel |-> "legacy", stack |-> StackNone, classes |-> PairClasses]
  /\ InitServer
  /\ docInput \in {[fn |-> "getFileLines", paths |-> p] :
                     p \in UNION {[1..n -> LookupPaths] : n \in 1..MaxLookups}}
  /\ docOutput = [returned |-> <<>>]

\* getFileLines(filePath) is called for the next path of the input
LookupFile ==
  LET logged(filePath, got) ==
        /\ fileLinesCache' = got.cache
        /\ docOutput' = [returned |-> Append(docOutput.returned,
                           [path |-> filePath, ok |-> got.ok, lines |-> got.lines,
                            read |-> got.read])]
      lookup(filePath) == logged(filePath, getFileLines(filePath, Disk, fileLinesCache))
  IN  /\ docInput.fn = "getFileLines"
      /\ Len(docOutput.returned) < Len(docInput.paths)
      /\ lookup(docInput.paths[Len(docOutput.returned) + 1])
      /\ UNCHANGED <<program, defined, constructed, lastParsedDoc, toolsMetadata,
                     reflectMetadata, instances, callToolHandler, call, serveVars,
                     docInput>>

NextCache == LookupFile

SpecCache == InitCache /\ [][NextCache]_vars

\* the lookups made so far
Lookups == IF "returned" \in DOMAIN docOutput THEN docOutput.returned ELSE <<>>

\* C25: the cache is keyed by the normalized path and only grows; once a path
\* has been looked up, every later lookup of it returns the same result
\* without another read of the disk, so that a file is read at most once
C25_OneReadPerFile ==
  (docInput # undefinedObj /\ docInput.fn = "getFileLines") =>
    /\ \A e \in fileLinesCache : e.path = pathNormalize(e.path)
    /\ \A i \in 1..Len(Lookups) : \A j \in (i + 1)..Len(Lookups) :
         pathNormalize(Lookups[i].path) = pathNormalize(Lookups[j].path) =>
           /\ Lookups[j].ok = Lookups[i].ok
           /\ Lookups[j].lines = Lookups[i].lines
           /\ ~Lookups[j].read

\* ---------------------------------------------------------------------------
\* A program of one tool under every kind of schema
\* ---------------------------------------------------------------------------

\* z.object({})
EmptyObjectSchema == ZodObject(<<>>)

\* the tool other with no schema (z.any() by default), with the empty object
\* schema, and with two schemas that have fields
ArgsClasses ==
  {[c \in Classes |->
      IF c = ClassOrder[1]
      THEN <<[propertyKey |-> S_other,
              options |-> [name |-> undefined, description |-> undefined,
                           parameters |-> p],
              doc |-> "proseOnly"]>>
      ELSE <<>>] :
     p \in {undefinedObj, EmptyObjectSchema, NumberPairSchema, OptionalFieldSchema}}

InitArgs ==
  /\ program \in [bindingModel : {"legacy", "standard"},
                  stack : {StackTs},
                  classes : ArgsClasses]
  /\ InitServer
  /\ NoDoc

\* the requests: payloads with and without undeclared fields and with a field of
\* the wrong type, in the arguments field or beside it
ArgsRequests ==
  {[name |-> S_other, hasArguments |-> TRUE, arguments |-> a, extra |-> {}] :
     a \in {{},
            {Field(K_a, Num(2)), Field(K_b, Num(3))},
            {Field(K_a, Num(2)), Field(K_b, Num(3)), Field(K_foo, Num(1))},
            {Field(K_a, Str(S_add)), Field(K_foo, Num(1))},
            {Field(K_foo, Num(1))}}}
  \cup
  {[name |-> S_other, hasArguments |-> FALSE, arguments |-> {}, extra |-> x] :
     x \in {{}, {Field(K_foo, Num(1)), Field(K_bar, Num(2))}}}

NextArgs ==
  \/ \E c \in Classes : DefineClass(c)
  \/ \E c \in Classes : Construct(c)
  \/ \E c \in Classes : \E id \in 1..MaxInstances : Register(c, id)
  \/ \E params \in ArgsRequests : CallToolRequest(params)
  \/ \E result \in WholeResults : CallToolSettle(result)
  \/ ListTools

SpecArgs == InitArgs /\ [][NextArgs]_vars

\* the schema lets every payload through
PassesThrough(schema) ==
  schema.kind = "ZodAny" \/ (schema.kind = "ZodObject" /\ Len(schema.shape) = 0)

\* obj is what a schema with these fields puts out for the payload: the declared
\* fields of the payload and nothing else, each of the declared type, none
\* missing unless optional
ValidatedOutput(shape, payload, obj) ==
  /\ obj = {e \in payload : \E i \in 1..Len(shape) : shape[i].key = e.key}
  /\ \A i \in 1..Len(shape) :
       \/ shape[i].type = "ZodOptional" /\ shape[i].key \notin keysOf(payload)
       \/ \E e \in obj : e.key = shape[i].key /\ zodTypeAccepts(shape[i].type, e.value)

\* C26: under the accept-anything schema and under an object schema without
\* fields the method receives the resolved payload as it is, undeclared fields
\* included, and no payload is rejected; under every other schema the method
\* receives the validated output of the schema
C26_PayloadBySchema ==
  /\ ("parsedArgs" \in DOMAIN call /\ "toolMeta" \in DOMAIN call) =>
       IF PassesThrough(call.toolMeta.parameters)
       THEN call.parsedArgs = resolveRawArgs(call.params)
       ELSE ValidatedOutput(call.toolMeta.parameters.shape, resolveRawArgs(call.params),
                            call.parsedArgs)
  /\ (call.phase = "responded" /\ call.outcome = "response" /\ ~call.invoked) =>
       ~PassesThrough(callToolHandler.toolMeta.parameters)

\* the method was invoked under the empty object schema with a payload that has
\* fields, all of them received
C26_Witness ==
  /\ call.phase = "responded"
  /\ "invoked" \in DOMAIN call /\ call.invoked
  /\ call.toolMeta.parameters = EmptyObjectSchema
  /\ call.parsedArgs = {Field(K_a, Num(2)), Field(K_b, Num(3)), Field(K_foo, Num(1))}

\* ---------------------------------------------------------------------------
\* The call-site locator applied to stacks of every composition
\* ---------------------------------------------------------------------------

\* the most frames above the frame of the locator itself
MaxFrames == 3

\* "/work/src/index.ts": the entry file of a project that uses the framework
P_userIndexTs == <<"/","w","o","r","k","/","s","r","c","/","i","n","d","e","x",".","t","s">>

\* the files of the framework's own implementation, as source and as compiled
FrameworkFiles == {P_indexTs, P_indexJs}

\* what frame.getFileName() may give: nothing, a file of the framework, a file
\* of a dependency, files of the user as source, as compiled output, as the
\* file URL of an ES module, and the user's own src/index.ts
FrameFiles ==
  {undefined, P_indexTs, P_indexJs, P_tslib, P_sourceTs, P_sourceJs, P_sourceUrl,
   P_userIndexTs}

\* the stacks: the frame of the locator first, then at most MaxFrames frames
CallStacks ==
  {<<own>> \o rest : own \in FrameworkFiles,
                     rest \in UNION {[1..n -> FrameFiles] : n \in 0..MaxFrames}}

InitCallsite ==
  /\ program = [bindingModel |-> "legacy", stack |-> StackNone,
                classes |-> [c \in Classes |-> <<>>]]
  /\ InitServer
  /\ docInput \in {[fn |-> "getCallsiteFileFromStack", stack |-> s, files |-> f] :
                     s \in CallStacks, f \in {{}, {P_sourceTs}}}
  /\ docOutput = undefinedObj

\* getCallsiteFileFromStack() is called under the stack of the input
LocateCallsite ==
  /\ docInput.fn = "getCallsiteFileFromStack"
  /\ docOutput = undefinedObj
  /\ docOutput' = [returned |-> getCallsiteFileFromStack(docInput.stack, docInput.files)]
  /\ UNCHANGED <<program, defined, constructed, fileLinesCache, lastParsedDoc,
                 toolsMetadata, reflectMetadata, instances, callToolHandler, call,
                 serveVars, docInput>>

NextCallsite == LocateCallsite

SpecCallsite == InitCallsite /\ [][NextCallsite]_vars

\* the file a frame's file name stands for: the path of a file URL, or the name
FrameFile(fileName) ==
  IF startsWith(fileName, <<"f","i","l","e",":","/","/">>)
  THEN SliceFrom(fileName, 8) ELSE fileName

\* the frame has a file that is neither of the framework nor of a dependency
QualifyingFrame(fileName) ==
  /\ fileName # undefined
  /\ FrameFile(fileName) \notin FrameworkFiles
  /\ ~includes(FrameFile(fileName), <<"/","n","o","d","e","_","m","o","d","u","l","e","s","/">>)

\* the source file beside a compiled file when it exists, the file otherwise
PreferSource(file, files) ==
  IF endsWith(file, <<".","j","s">>) /\ jsToTsExt(distToSrc(file)) \in files
  THEN jsToTsExt(distToSrc(file)) ELSE file

\* the call site of a stack: the file of its first qualifying frame
CallsiteOf(stack, files) ==
  LET first(ok) ==
        IF ok = {} THEN undefined ELSE PreferSource(FrameFile(stack[SetMin(ok)]), files)
  IN  first({i \in 1..Len(stack) : QualifyingFrame(stack[i])})

\* C27: the locator returns the file of the first frame, in stack order, that
\* has a file outside the framework's implementation and outside the
\* dependency tree, the source file beside it when the file is compiled output
\* and that source exists, and nothing when no frame qualifies
C27_FirstUserFrame ==
  (docInput # undefinedObj /\ docInput.fn = "getCallsiteFileFromStack"
   /\ docOutput # undefinedObj) =>
    docOutput.returned = CallsiteOf(docInput.stack, docInput.files)

\* a CallTool request for this name is dispatched or answered, not refused as
\* unknown
Invocable(name) ==
  LET request == [name |-> name, hasArguments |-> FALSE, arguments |-> {}, extra |-> {}]
      accepted(r) == r.phase = "awaiting" \/ r.outcome # "throw"
  IN  accepted(callToolBegin(callToolHandler, request))

\* C28: the listing and the invocation agree: every name that the listing
\* returns can be invoked without a not-found error, and every name that can
\* be invoked is in the listing
C28_ListingAgreesWithInvocation ==
  LET listed(tools) == {tools[i].name : i \in 1..Len(tools)}
  IN  /\ call.phase = "listed" => \A n \in listed(call.tools) : Invocable(n)
      /\ \A n \in {S_hi, S_other, S_nosuch} :
           Invocable(n) => n \in listed(listToolsHandler(toolsMetadata))

\* the resource descriptors of the registry in the order of the listing
ResourceDescriptors == flatten([i \in 1..Len(resourcesMetadata) |-> resourcesMetadata[i].value])

\* C29: the mime type that the listing reports for a resource is the mime type
\* of a successful read of that resource, "text/plain" when the resource
\* declares none
C29_ListedMimeTypeIsReadMimeType ==
  LET listing == listResourcesHandler(resourcesMetadata)
  IN  (/\ call.phase = "responded"
       /\ "request" \in DOMAIN call
       /\ call.request = "resources/read"
       /\ call.outcome = "response") =>
        /\ call.mimeType = IF truthy(call.resourceMeta.mimeType)
                           THEN call.resourceMeta.mimeType ELSE TextPlain
        /\ \A i \in 1..Len(listing) :
             ResourceDescriptors[i] = call.resourceMeta =>
               listing[i].mimeType = call.mimeType

\* ---------------------------------------------------------------------------
\* A program of one resource under every kind of matcher
\* ---------------------------------------------------------------------------

\* the matchers: an exact string, and /^file:\/\/(.+)$/ without flags and with
\* the flags i, g and y
Matchers ==
  {[kind |-> "string", value |-> U_config]}
  \cup {[kind |-> "RegExp", literal |-> U_filePrefix, flags |-> f] :
          f \in {{}, {"i"}, {"g"}, {"y"}}}

MatchResources ==
  {[c \in Classes |->
      IF c = ClassOrder[1]
      THEN <<[propertyKey |-> <<"r","e","a","d","F","i","l","e">>,
              options |-> [uri |-> m, name |-> undefined, description |-> undefined,
                           mimeType |-> undefined]]>>
      ELSE <<>>] : m \in Matchers}

InitMatch ==
  /\ program \in [bindingModel : {"legacy", "standard"},
                  stack : {StackTs},
                  classes : {[c \in Classes |-> <<>>]},
                  prompts : {[c \in Classes |-> <<>>]},
                  resources : MatchResources]
  /\ InitServer
  /\ NoDoc

\* the URIs read
MatchRequests == {[uri |-> u] : u \in {U_config, U_file, S_nosuch}}

NextMatch ==
  \/ \E c \in Classes : DefineClass(c)
  \/ \E c \in Classes : Construct(c)
  \/ \E c \in Classes : \E id \in 1..MaxInstances : Register(c, id)
  \/ \E params \in MatchRequests : ReadResourceRequest(params)
  \/ \E result \in WholeResults : ReadResourceSettle(result)

SpecMatch == InitMatch /\ [][NextMatch]_vars

\* r is a ReadResource request, dispatched or answered
IsRead(r) == "request" \in DOMAIN r /\ r.request = "resources/read"

\* the URI of the read was matched: the method is awaited or has been invoked
ReadMatched(r) == r.phase = "awaiting" \/ r.invoked

\* C30: matching has no memory: a read of a URI that directly follows an
\* answered read of the same URI, with no register in between, is matched if
\* and only if the earlier one was, whatever the matcher and its flags
C30_MatchingIsStateless ==
  [][(/\ IsRead(call) /\ call.phase = "responded"
      /\ IsRead(call')
      /\ call'.params.uri = call.params.uri
      /\ call'.phase = "awaiting" \/ ~call'.invoked) =>
        ReadMatched(call') = ReadMatched(call)]_vars

====
